---- MODULE Spec2Model ----
(***************************************************************************)
(* Quiz session state machine of the Podcastify backend:                   *)
(*   backend/app/models/quiz_session.py       (session store and updates)  *)
(*   backend/app/api/endpoints/quiz.py        (HTTP handlers)              *)
(*   backend/app/services/struggle_detector.py (attempt analysis)          *)
(*                                                                         *)
(* Conventions.  Python's Optional[T] is a sequence of length 0 or 1:      *)
(* None is <<>> and a value v is <<v>>.  datetime.now() is the token NOW.  *)
(* Python lists are sequences; list indexes stay 0-based in the state      *)
(* (current_question_index, current_checkpoint_index) and are shifted by   *)
(* one where a sequence is subscripted.  A handler is an operator from the  *)
(* store and the request to the store it leaves and the response it gives  *)
(* (an HTTPException is a response carrying status_code and detail); the   *)
(* action of the handler installs that store.                              *)
(***************************************************************************)
EXTENDS Integers, Sequences, FiniteSets, TLC

VARIABLES
    quiz_sessions,    \* quiz_session.py:98  session_id -> QuizSession
    analysis_input,   \* arguments of a direct StruggleDetector.analyze_attempts call
    analysis_report,  \* its result
    transcript,       \* the responses one learner has received, in order
    in_flight         \* the handler tasks of the event loop, in order of arrival

vars == <<quiz_sessions, analysis_input, analysis_report, transcript, in_flight>>

----------------------------------------------------------------------------
(* Enumerations and Optional *)

None == <<>>
Some(x) == <<x>>
NOW == "now"

QS_NOT_STARTED == "not_started"
QS_IN_PROGRESS == "in_progress"
QS_LEARNING_MODE == "learning_mode"
QS_COMPLETED == "completed"

NOT_ATTEMPTED == "not_attempted"
IN_PROGRESS == "in_progress"
CORRECT == "correct"
LEARNING_MODE == "learning_mode"

SL_NONE == "none"
SL_MINOR == "minor"
SL_MODERATE == "moderate"
SL_SIGNIFICANT == "significant"

Max(a, b) == IF a >= b THEN a ELSE b

\* next((i for i, x in enumerate(seq) if x[key] == v), None), 1-based, 0 for None
FirstIndex(seq, Match(_)) ==
    IF \E i \in 1..Len(seq) : Match(seq[i])
    THEN CHOOSE i \in 1..Len(seq) :
            Match(seq[i]) /\ \A j \in 1..(i - 1) : ~Match(seq[j])
    ELSE 0

----------------------------------------------------------------------------
(* quiz_session.py: records *)

NewQuestionProgress(qid) ==
    [question_id |-> qid,
     status |-> NOT_ATTEMPTED,
     attempts |-> <<>>,
     hints_used |-> <<>>,
     started_at |-> None,
     completed_at |-> None,
     in_learning_mode |-> FALSE,
     learning_mode_checkpoints |-> <<>>,
     current_checkpoint_index |-> 0]

NewCheckpointProgress(cpid) ==
    [checkpoint_id |-> cpid,
     status |-> "not_started",
     conversation_history |-> <<>>,
     current_hint_level |-> 0,
     attempts |-> 0,
     started_at |-> None,
     completed_at |-> None]

QuestionAttempt(selected_option, is_correct, time_spent_seconds) ==
    [selected_option |-> selected_option,
     is_correct |-> is_correct,
     timestamp |-> NOW,
     time_spent_seconds |-> time_spent_seconds]

create_quiz_session(session_id, episode_id, questions, concepts) ==
    [session_id |-> session_id,
     episode_id |-> episode_id,
     questions |-> questions,
     concepts |-> concepts,
     status |-> QS_NOT_STARTED,
     current_question_index |-> 0,
     question_progress |->
         [i \in 1..Len(questions) |-> NewQuestionProgress(questions[i].question_id)],
     started_at |-> None,
     completed_at |-> None,
     score |-> 0,
     total_questions |-> Len(questions),
     hints_used_total |-> 0,
     learning_mode_triggered_count |-> 0]

\* index (1-based, 0 if none) of the first progress / question with this id
ProgressIndex(s, question_id) ==
    FirstIndex(s.question_progress, LAMBDA qp : qp.question_id = question_id)

\* a question id the session does not hold taken as its first question
QuestionIndex_or_first(s, question_id) ==
    IF \E k \in 1..Len(s.questions) : s.questions[k].question_id = question_id
    THEN FirstIndex(s.questions, LAMBDA q : q.question_id = question_id)
    ELSE IF Len(s.questions) > 0 THEN 1 ELSE 0

QuestionIndex(s, question_id) ==
    FirstIndex(s.questions, LAMBDA q : q.question_id = question_id)

----------------------------------------------------------------------------
(* quiz_session.py: updates of one session *)

start_quiz(s) ==
    LET s1 == [s EXCEPT !.status = QS_IN_PROGRESS, !.started_at = Some(NOW)]
    IN  IF Len(s1.question_progress) > 0
        THEN [s1 EXCEPT !.question_progress[1].status = IN_PROGRESS,
                        !.question_progress[1].started_at = Some(NOW)]
        ELSE s1

\* the attempt stored in place of the list instead of appended to it
record_attempt_latest_only(s, question_id, selected_option, is_correct, time_spent_seconds) ==
    LET i == ProgressIndex(s, question_id)
        attempt == QuestionAttempt(selected_option, is_correct, time_spent_seconds)
    IN  IF i = 0 THEN s
        ELSE LET s1 == [s EXCEPT !.question_progress[i].attempts = <<attempt>>]
             IN  IF is_correct
                 THEN [s1 EXCEPT !.question_progress[i].status = CORRECT,
                                 !.question_progress[i].completed_at = Some(NOW),
                                 !.score = @ + 1]
                 ELSE s1

\* a wrong attempt marking its question in progress
record_attempt_marks_in_progress(s, question_id, selected_option, is_correct, time_spent_seconds) ==
    LET i == ProgressIndex(s, question_id)
        attempt == QuestionAttempt(selected_option, is_correct, time_spent_seconds)
    IN  IF i = 0 THEN s
        ELSE LET s1 == [s EXCEPT !.question_progress[i].attempts = Append(@, attempt)]
             IN  IF is_correct
                 THEN [s1 EXCEPT !.question_progress[i].status = CORRECT,
                                 !.question_progress[i].completed_at = Some(NOW),
                                 !.score = @ + 1]
                 ELSE [s1 EXCEPT !.question_progress[i].status = IN_PROGRESS]

record_attempt(s, question_id, selected_option, is_correct, time_spent_seconds) ==
    LET i == ProgressIndex(s, question_id)
        attempt == QuestionAttempt(selected_option, is_correct, time_spent_seconds)
    IN  IF i = 0 THEN s
        ELSE LET s1 == [s EXCEPT !.question_progress[i].attempts = Append(@, attempt)]
             IN  IF is_correct
                 THEN [s1 EXCEPT !.question_progress[i].status = CORRECT,
                                 !.question_progress[i].completed_at = Some(NOW),
                                 !.score = @ + 1]
                 ELSE s1

\* the question entered again with its checkpoint position kept
enter_learning_mode_keeps_index(s, question_id, checkpoints) ==
    LET i == ProgressIndex(s, question_id)
        s1 == [s EXCEPT !.status = QS_LEARNING_MODE,
                        !.learning_mode_triggered_count = @ + 1]
        cps == [k \in 1..Len(checkpoints) |->
                    IF k = 1
                    THEN [NewCheckpointProgress(checkpoints[k].checkpoint_id)
                             EXCEPT !.status = "in_progress", !.started_at = Some(NOW)]
                    ELSE NewCheckpointProgress(checkpoints[k].checkpoint_id)]
    IN  IF i = 0 THEN s1
        ELSE [s1 EXCEPT !.question_progress[i].status = LEARNING_MODE,
                        !.question_progress[i].in_learning_mode = TRUE,
                        !.question_progress[i].learning_mode_checkpoints = cps]

enter_learning_mode(s, question_id, checkpoints) ==
    LET i == ProgressIndex(s, question_id)
        s1 == [s EXCEPT !.status = QS_LEARNING_MODE,
                        !.learning_mode_triggered_count = @ + 1]
        cps == [k \in 1..Len(checkpoints) |->
                    IF k = 1
                    THEN [NewCheckpointProgress(checkpoints[k].checkpoint_id)
                             EXCEPT !.status = "in_progress", !.started_at = Some(NOW)]
                    ELSE NewCheckpointProgress(checkpoints[k].checkpoint_id)]
    IN  IF i = 0 THEN s1
        ELSE [s1 EXCEPT !.question_progress[i].status = LEARNING_MODE,
                        !.question_progress[i].in_learning_mode = TRUE,
                        !.question_progress[i].learning_mode_checkpoints = cps,
                        !.question_progress[i].current_checkpoint_index = 0]

\* the session returned to the quiz with the question left as it was
exit_learning_mode_session_only(s, question_id) ==
    [s EXCEPT !.status = QS_IN_PROGRESS]

exit_learning_mode(s, question_id) ==
    LET i == ProgressIndex(s, question_id)
        s1 == [s EXCEPT !.status = QS_IN_PROGRESS]
    IN  IF i = 0 THEN s1
        ELSE [s1 EXCEPT !.question_progress[i].in_learning_mode = FALSE,
                        !.question_progress[i].status = IN_PROGRESS]

complete_quiz(s) ==
    [s EXCEPT !.status = QS_COMPLETED, !.completed_at = Some(NOW)]

----------------------------------------------------------------------------
(* struggle_detector.py *)

SelectedOptions(attempts) == [i \in 1..Len(attempts) |-> attempts[i].selected_option]

\* list.count(opt)
Count(seq, x) == Cardinality({i \in 1..Len(seq) : seq[i] = x})

\* set(list)
Range(seq) == {seq[i] : i \in 1..Len(seq)}

\* the classification computed over the wrong attempts only
analyze_answer_pattern_wrong_only(attempts) ==
    LET wrong == SelectSeq(attempts, LAMBDA a : ~a.is_correct)
        selected_options == SelectedOptions(wrong)
        distinct == Range(selected_options)
    IN  IF Len(wrong) < 2
        THEN [pattern_type |-> "insufficient_data"]
        ELSE IF Cardinality(distinct) = 1
        THEN [pattern_type |-> "consistent_misconception",
              repeated_option |-> selected_options[1]]
        ELSE IF Cardinality(distinct) = Len(selected_options)
        THEN [pattern_type |-> "random_guessing"]
        ELSE [pattern_type |-> "mixed",
              option_frequencies |->
                  [opt \in distinct |-> Count(selected_options, opt)]]

analyze_answer_pattern(attempts) ==
    LET selected_options == SelectedOptions(attempts)
        distinct == Range(selected_options)
    IN  IF Len(attempts) < 2
        THEN [pattern_type |-> "insufficient_data"]
        ELSE IF Cardinality(distinct) = 1
        THEN [pattern_type |-> "consistent_misconception",
              repeated_option |-> selected_options[1]]
        ELSE IF Cardinality(distinct) = Len(selected_options)
        THEN [pattern_type |-> "random_guessing"]
        ELSE [pattern_type |-> "mixed",
              option_frequencies |->
                  [opt \in distinct |-> Count(selected_options, opt)]]

\* avg_time_per_attempt = time_spent_seconds / max(1, wrong_count + 1), kept as the
\* exact fraction num/den; avg < k is num < k * den
analyze_time_spent(time_spent_seconds, wrong_count) ==
    LET den == Max(1, wrong_count + 1)
    IN  [total_time_seconds |-> time_spent_seconds,
         avg_time_per_attempt |-> [num |-> time_spent_seconds, den |-> den],
         assessment |->
             IF time_spent_seconds < 10 * den THEN "rushed"
             ELSE IF time_spent_seconds < 30 * den THEN "normal"
             ELSE "deliberate"]

get_recommendation(struggle_level, pattern_analysis, should_trigger) ==
    IF should_trigger THEN "trigger_learning_mode"
    ELSE IF struggle_level = SL_NONE THEN "no_intervention"
    ELSE IF struggle_level = SL_MINOR THEN "level_1_hint"
    ELSE IF struggle_level = SL_MODERATE
    THEN IF pattern_analysis.pattern_type = "consistent_misconception"
         THEN "level_2_hint_misconception"
         ELSE "level_2_hint"
    ELSE "continue_monitoring"

WrongCount(attempts) == Cardinality({i \in 1..Len(attempts) : ~attempts[i].is_correct})

\* the threshold test written with > in place of >=
ShouldTrigger_strict(wrong_count) == wrong_count > 3

ShouldTrigger(wrong_count) == wrong_count >= 3

StruggleLevelOf(wrong_count) ==
    IF wrong_count = 0 THEN SL_NONE
    ELSE IF wrong_count = 1 THEN SL_MINOR
    ELSE IF wrong_count = 2 THEN SL_MODERATE
    ELSE SL_SIGNIFICANT

\* `if time_spent_seconds:` is false for None and for 0
Truthy(opt_number) == opt_number # None /\ opt_number[1] # 0

analyze_attempts(attempts, time_spent_seconds) ==
    LET wrong_count == WrongCount(attempts)
        struggle_level == StruggleLevelOf(wrong_count)
        should_trigger == ShouldTrigger(wrong_count)
        pattern_analysis == analyze_answer_pattern(attempts)
        time_analysis ==
            IF Truthy(time_spent_seconds)
            THEN Some(analyze_time_spent(time_spent_seconds[1], wrong_count))
            ELSE None
    IN  [struggle_level |-> struggle_level,
         should_trigger_learning_mode |-> should_trigger,
         wrong_attempt_count |-> wrong_count,
         total_attempt_count |-> Len(attempts),
         pattern_analysis |-> pattern_analysis,
         time_analysis |-> time_analysis,
         recommendation |->
             get_recommendation(struggle_level, pattern_analysis, should_trigger)]

----------------------------------------------------------------------------
(* External collaborators: their outcomes are inputs of the handlers.  A call    *)
(* that raises is None, a call that returns is Some(result).                    *)

CheckpointIds == <<"cp1", "cp2", "cp3", "cp4", "cp5", "cp6">>

\* learning_coach.generate_checkpoints returning a list of n checkpoint definitions
CheckpointDefs(n) ==
    [k \in 1..n |-> [checkpoint_id |-> CheckpointIds[k], socratic_question |-> k]]

\* the learner moved on at the third attempt on a checkpoint whatever the analysis
AdaptiveHint_retry_cap(attempt_count, understanding_level, should_advance) ==
    [hint_level |-> IF attempt_count = 1 THEN 1 ELSE IF attempt_count = 2 THEN 2 ELSE 3,
     understanding_level |-> understanding_level,
     should_advance |-> should_advance \/ attempt_count >= 3]

\* learning_coach.provide_adaptive_hint: hint level from the attempt count, the
\* rest from the model's answer
AdaptiveHint(attempt_count, understanding_level, should_advance) ==
    [hint_level |-> IF attempt_count = 1 THEN 1 ELSE IF attempt_count = 2 THEN 2 ELSE 3,
     understanding_level |-> understanding_level,
     should_advance |-> should_advance]

generate_encouragement(checkpoint_completed, understanding_level) ==
    IF checkpoint_completed /\ understanding_level = "mastery" THEN "excellent"
    ELSE IF checkpoint_completed THEN "good_progress"
    ELSE "keep_thinking"

HTTPException(status_code, detail) ==
    [op |-> "HTTPException", status_code |-> status_code, detail |-> detail]

\* what a handler leaves and returns
Result(store, response) == [quiz_sessions |-> store, response |-> response]

\* the progress list written as if the sessions shared one list object
Put_shared_progress(store, s) == [k \in DOMAIN store |-> IF k = s.session_id THEN s ELSE [store[k] EXCEPT !.question_progress = s.question_progress]]

\* the session object is mutated in place: the store holds the new value
Put(store, s) == [store EXCEPT ![s.session_id] = s]

----------------------------------------------------------------------------
(* quiz.py: POST /quiz/generate *)

\* quiz_session_id: the fresh uuid; upload_found: request.session_id in sessions;
\* generated: what concept extraction and quiz generation returned
generate_quiz(store, quiz_session_id, upload_found, generated) ==
    IF ~upload_found
    THEN Result(store, HTTPException(404, "Session not found or expired"))
    ELSE IF generated = None
    THEN Result(store, HTTPException(500, "Failed to generate quiz"))
    ELSE LET questions == generated[1].questions
             concepts == generated[1].concepts
             s == start_quiz(create_quiz_session(quiz_session_id, "upload",
                                                 questions, concepts))
         IN  Result((quiz_session_id :> s) @@ store,
                    [op |-> "generate_quiz", status_code |-> 200,
                     quiz_session_id |-> quiz_session_id,
                     total_questions |-> Len(questions)])

----------------------------------------------------------------------------
(* quiz.py: POST /quiz/submit-answer *)

\* the level taken from the wrong count without the cap at 3
HintLevelFor_uncapped(wrong_count) == wrong_count

HintLevelFor(wrong_count) ==
    IF wrong_count = 1 THEN 1 ELSE IF wrong_count = 2 THEN 2 ELSE 3

\* next((h for h in hints if h['level'] == hint_level),
\*      hints[-1] if hints else {"level": 3, "type": "explicit", "text": "Try again!"})
LegacyHint(hints, hint_level) ==
    LET i == FirstIndex(hints, LAMBDA h : h.level = hint_level)
    IN  IF i # 0 THEN hints[i]
        ELSE IF Len(hints) > 0 THEN hints[Len(hints)]
        ELSE [level |-> 3, text |-> "Try again!"]

\* the branch `if is_correct:` after record_attempt: advance or complete
AdvanceOrComplete(s) ==
    IF s.current_question_index < Len(s.questions) - 1
    THEN LET idx == s.current_question_index + 1
         IN  [s EXCEPT !.current_question_index = idx,
                       !.question_progress[idx + 1].status = IN_PROGRESS,
                       !.question_progress[idx + 1].started_at = Some(NOW)]
    ELSE complete_quiz(s)

NextQuestionId(s) ==
    IF s.current_question_index < Len(s.questions) - 1
    THEN Some(s.questions[s.current_question_index + 2].question_id)
    ELSE None

\* the lines "Track hint usage"
TrackHint(s, i, hint_level) ==
    IF hint_level \notin Range(s.question_progress[i].hints_used)
    THEN [s EXCEPT !.question_progress[i].hints_used = Append(@, hint_level),
                   !.hints_used_total = @ + 1]
    ELSE s

\* the answer revealed on the third wrong attempt only
RevealAnswer_third_only(wrong_count) == wrong_count = 3

RevealAnswer(wrong_count) == wrong_count >= 3

\* the level taken as 3, the level of the fallback hint, when no Socratic hint
\* was generated
WrongAnswerResponse_fallback_level(s, question, attempts, time_spent_seconds, socratic_hint) ==
    LET struggle_analysis == analyze_attempts(attempts, time_spent_seconds)
        wrong_count == struggle_analysis.wrong_attempt_count
        hint_level == IF socratic_hint = None THEN 3 ELSE HintLevelFor(wrong_count)
        current_idx == s.current_question_index
        total_q == Len(s.questions)
    IN  [op |-> "submit_answer", status_code |-> 200,
         is_correct |-> FALSE,
         hint |-> Some(LegacyHint(question.hints, hint_level)),
         should_trigger_learning_mode |-> struggle_analysis.should_trigger_learning_mode,
         struggle_analysis |-> Some(struggle_analysis),
         correct_answer |->
             IF RevealAnswer(wrong_count) THEN Some(question.correct_answer) ELSE None,
         explanation |->
             IF RevealAnswer(wrong_count) THEN Some(question.explanation) ELSE None,
         next_question_id |-> None,
         current_hint_level |-> Some(hint_level),
         socratic_hint |-> socratic_hint,
         current_question_index |-> Some(current_idx + 1),
         total_questions |-> Some(total_q),
         has_previous_question |-> current_idx > 0,
         has_next_question |-> current_idx < total_q - 1]

WrongAnswerResponse(s, question, attempts, time_spent_seconds, socratic_hint) ==
    LET struggle_analysis == analyze_attempts(attempts, time_spent_seconds)
        wrong_count == struggle_analysis.wrong_attempt_count
        hint_level == HintLevelFor(wrong_count)
        current_idx == s.current_question_index
        total_q == Len(s.questions)
    IN  [op |-> "submit_answer", status_code |-> 200,
         is_correct |-> FALSE,
         hint |-> Some(LegacyHint(question.hints, hint_level)),
         should_trigger_learning_mode |-> struggle_analysis.should_trigger_learning_mode,
         struggle_analysis |-> Some(struggle_analysis),
         correct_answer |->
             IF RevealAnswer(wrong_count) THEN Some(question.correct_answer) ELSE None,
         explanation |->
             IF RevealAnswer(wrong_count) THEN Some(question.explanation) ELSE None,
         next_question_id |-> None,
         current_hint_level |-> Some(hint_level),
         socratic_hint |-> socratic_hint,
         current_question_index |-> Some(current_idx + 1),
         total_questions |-> Some(total_q),
         has_previous_question |-> current_idx > 0,
         has_next_question |-> current_idx < total_q - 1]

CorrectAnswerResponse(next_q_id) ==
    [op |-> "submit_answer", status_code |-> 200,
     is_correct |-> TRUE,
     hint |-> None,
     should_trigger_learning_mode |-> FALSE,
     struggle_analysis |-> None,
     correct_answer |-> None,
     explanation |-> None,
     next_question_id |-> next_q_id,
     current_hint_level |-> None,
     socratic_hint |-> None,
     current_question_index |-> None,
     total_questions |-> None,
     has_previous_question |-> FALSE,
     has_next_question |-> FALSE]

\* request: SubmitAnswerRequest; socratic_hint: what the try around
\* generate_socratic_hint leaves in socratic_hint (None when it raised)
submit_answer(store, request, socratic_hint) ==
    IF request.quiz_session_id \notin DOMAIN store
    THEN Result(store, HTTPException(404, "Quiz session not found"))
    ELSE IF QuestionIndex(store[request.quiz_session_id], request.question_id) = 0
    THEN Result(store, HTTPException(404, "Question not found"))
    ELSE LET s0 == store[request.quiz_session_id]
             question == s0.questions[QuestionIndex(s0, request.question_id)]
             is_correct == request.selected_option = question.correct_answer
             s1 == record_attempt(s0, request.question_id, request.selected_option,
                                  is_correct, request.time_spent_seconds)
             i == ProgressIndex(s1, request.question_id)
         IN  IF is_correct
             THEN Result(Put(store, AdvanceOrComplete(s1)),
                         CorrectAnswerResponse(NextQuestionId(s1)))
             ELSE LET r == WrongAnswerResponse(s1, question,
                                               s1.question_progress[i].attempts,
                                               request.time_spent_seconds, socratic_hint)
                  IN  Result(Put(store, TrackHint(s1, i, r.current_hint_level[1])), r)

----------------------------------------------------------------------------
(* quiz.py: POST /quiz/get-hint *)

\* a hint request whose generation raised recorded as a wrong attempt
get_hint_failure_counts(store, request, socratic_hint) == IF socratic_hint = None THEN submit_answer(store, [quiz_session_id |-> request.quiz_session_id, question_id |-> request.question_id, selected_option |-> "", time_spent_seconds |-> None], None) ELSE Result(store, [op |-> "get_hint", status_code |-> 200, hint_level |-> request.hint_level, socratic_hint |-> socratic_hint])

\* request: GetHintRequest; socratic_hint: None when generate_socratic_hint raised
get_hint(store, request, socratic_hint) ==
    IF request.quiz_session_id \notin DOMAIN store
    THEN Result(store, HTTPException(404, "Quiz session not found"))
    ELSE IF QuestionIndex(store[request.quiz_session_id], request.question_id) = 0
    THEN Result(store, HTTPException(404, "Question not found"))
    ELSE IF request.hint_level \notin {1, 2, 3}
    THEN Result(store, HTTPException(400, "Hint level must be 1, 2, or 3"))
    ELSE IF socratic_hint = None
    THEN Result(store, HTTPException(500, "Failed to generate hint"))
    ELSE Result(store, [op |-> "get_hint", status_code |-> 200,
                        hint_level |-> request.hint_level,
                        socratic_hint |-> socratic_hint])

----------------------------------------------------------------------------
(* quiz.py: POST /quiz/navigate-question *)

\* "next" wrapping round to the first question at the last one
NavigateTarget_wrapping(current_idx, total_q, direction, target_question_index) ==
    IF direction = "next"
    THEN IF total_q > 0
         THEN [new_idx |-> Some((current_idx + 1) % total_q), detail |-> ""]
         ELSE [new_idx |-> None, detail |-> "Already at last question"]
    ELSE IF direction = "previous"
    THEN IF current_idx > 0
         THEN [new_idx |-> Some(current_idx - 1), detail |-> ""]
         ELSE [new_idx |-> None, detail |-> "Already at first question"]
    ELSE IF direction = "jump"
    THEN IF target_question_index = None
         THEN [new_idx |-> None, detail |-> "target_question_index required for jump"]
         ELSE IF target_question_index[1] - 1 < 0 \/ target_question_index[1] - 1 >= total_q
         THEN [new_idx |-> None, detail |-> "Invalid question index"]
         ELSE [new_idx |-> Some(target_question_index[1] - 1), detail |-> ""]
    ELSE [new_idx |-> None, detail |-> "direction must be 'next', 'previous', or 'jump'"]

\* "Calculate new index based on direction": Some(new_idx), or the detail of the
\* HTTPException(400) raised instead
NavigateTarget(current_idx, total_q, direction, target_question_index) ==
    IF direction = "next"
    THEN IF current_idx < total_q - 1
         THEN [new_idx |-> Some(current_idx + 1), detail |-> ""]
         ELSE [new_idx |-> None, detail |-> "Already at last question"]
    ELSE IF direction = "previous"
    THEN IF current_idx > 0
         THEN [new_idx |-> Some(current_idx - 1), detail |-> ""]
         ELSE [new_idx |-> None, detail |-> "Already at first question"]
    ELSE IF direction = "jump"
    THEN IF target_question_index = None
         THEN [new_idx |-> None, detail |-> "target_question_index required for jump"]
         ELSE IF target_question_index[1] - 1 < 0 \/ target_question_index[1] - 1 >= total_q
         THEN [new_idx |-> None, detail |-> "Invalid question index"]
         ELSE [new_idx |-> Some(target_question_index[1] - 1), detail |-> ""]
    ELSE [new_idx |-> None, detail |-> "direction must be 'next', 'previous', or 'jump'"]

\* "Update question progress if not already started": the test compares the
\* QuestionStatus value with the string "not_started"
MarkStartedOnNavigate(s, new_idx) ==
    IF s.question_progress[new_idx + 1].status = "not_started"
    THEN [s EXCEPT !.question_progress[new_idx + 1].status = IN_PROGRESS,
                   !.question_progress[new_idx + 1].started_at = Some(NOW)]
    ELSE s

\* the navigated-to index returned to the caller but not stored
SetCurrentIndex_display_only(s, new_idx) == s

\* "Update current question index"
SetCurrentIndex(s, new_idx) == [s EXCEPT !.current_question_index = new_idx]

\* request: NavigateQuestionRequest
navigate_question(store, request) ==
    IF request.quiz_session_id \notin DOMAIN store
    THEN Result(store, HTTPException(404, "Quiz session not found"))
    ELSE LET s == store[request.quiz_session_id]
             total_q == Len(s.questions)
             t == NavigateTarget(s.current_question_index, total_q, request.direction,
                                 request.target_question_index)
         IN  IF t.new_idx = None
             THEN Result(store, HTTPException(400, t.detail))
             ELSE LET new_idx == t.new_idx[1]
                  IN  Result(Put(store, MarkStartedOnNavigate(SetCurrentIndex(s, new_idx),
                                                              new_idx)),
                             [op |-> "navigate_question", status_code |-> 200,
                              question |-> s.questions[new_idx + 1].question_id,
                              question_index |-> new_idx + 1,
                              total_questions |-> total_q,
                              has_previous |-> new_idx > 0,
                              has_next |-> new_idx < total_q - 1])

----------------------------------------------------------------------------
(* quiz.py: POST /quiz/enter-learning-mode *)

ConceptIndex(s, concept_id) ==
    FirstIndex(s.concepts, LAMBDA c : c.id = concept_id)

\* request: EnterLearningModeRequest; generated: what generate_checkpoints returned
enter_learning_mode_endpoint(store, request, generated) ==
    IF request.quiz_session_id \notin DOMAIN store
    THEN Result(store, HTTPException(404, "Quiz session not found"))
    ELSE IF QuestionIndex(store[request.quiz_session_id], request.question_id) = 0
    THEN Result(store, HTTPException(404, "Question not found"))
    ELSE LET s == store[request.quiz_session_id]
             question_id == request.question_id
             question == s.questions[QuestionIndex(s, question_id)]
         IN  IF ConceptIndex(s, question.concept_id) = 0
             THEN Result(store, HTTPException(404, "Concept not found for this question"))
             ELSE IF generated = None
             THEN \* generate_checkpoints raised inside the try
                  Result(store, HTTPException(500, "Failed to enter learning mode"))
             ELSE LET checkpoints == generated[1]
                      entered == Put(store, enter_learning_mode(s, question_id, checkpoints))
                  IN  IF Len(checkpoints) = 0
                      THEN \* checkpoints[0] raises IndexError inside the try, after
                           \* enter_learning_mode has run
                           Result(entered,
                                  HTTPException(500, "Failed to enter learning mode"))
                      ELSE Result(entered,
                                  [op |-> "enter_learning_mode", status_code |-> 200,
                                   checkpoints |-> checkpoints,
                                   current_checkpoint |-> checkpoints[1],
                                   total_checkpoints |-> Len(checkpoints)])

----------------------------------------------------------------------------
(* quiz.py: POST /quiz/checkpoint-response *)

\* the turn appended without counting the attempt
RecordTurn_uncounted(s, i, cp_index, checkpoint, user_response) ==
    [s EXCEPT !.question_progress[i].learning_mode_checkpoints[cp_index + 1] =
                 [@ EXCEPT !.conversation_history =
                               Append(@, [question |-> checkpoint.socratic_question,
                                          answer |-> user_response])]]

\* "Record conversation": append the turn and count the attempt
RecordTurn(s, i, cp_index, checkpoint, user_response) ==
    [s EXCEPT !.question_progress[i].learning_mode_checkpoints[cp_index + 1] =
                 [@ EXCEPT !.conversation_history =
                               Append(@, [question |-> checkpoint.socratic_question,
                                          answer |-> user_response]),
                           !.attempts = @ + 1]]

\* "Mark current checkpoint complete" and "Move to next checkpoint"
CompleteCheckpoint(s, i, cp_index) ==
    [s EXCEPT !.question_progress[i].learning_mode_checkpoints[cp_index + 1] =
                 [@ EXCEPT !.status = "completed", !.completed_at = Some(NOW)],
              !.question_progress[i].current_checkpoint_index = @ + 1]

\* "Start next checkpoint"
StartCheckpoint(s, i, cp_index) ==
    [s EXCEPT !.question_progress[i].learning_mode_checkpoints[cp_index + 1] =
                 [@ EXCEPT !.status = "in_progress", !.started_at = Some(NOW)]]

\* the branch `if q_progress.current_checkpoint_index < len(checkpoints)`, where
\* checkpoints is the list fetched again in this request
MoreCheckpoints(new_index, refetched_count) == new_index < refetched_count

\* the body of the try once should_advance is true
AdvanceCheckpoint(store, s1, i, cp_index, question_id, checkpoints, r) ==
    LET s2 == CompleteCheckpoint(s1, i, cp_index)
        new_index == s2.question_progress[i].current_checkpoint_index
    IN  IF MoreCheckpoints(new_index, Len(checkpoints))
        THEN IF new_index >= Len(s2.question_progress[i].learning_mode_checkpoints)
             THEN \* learning_mode_checkpoints[new_index] raises IndexError in the try
                  Result(Put(store, s2),
                         HTTPException(500, "Failed to process checkpoint response"))
             ELSE Result(Put(store, StartCheckpoint(s2, i, new_index)),
                         [r EXCEPT !.next_checkpoint = Some(checkpoints[new_index + 1])])
        ELSE Result(Put(store, exit_learning_mode(s2, question_id)),
                    [r EXCEPT !.learning_complete = TRUE,
                              !.feedback = "learning_complete"])

\* the body of the try
RespondToCheckpoint(store, s0, i, cp_index, question_id, user_response, checkpoints, analysis) ==
    LET checkpoint == checkpoints[cp_index + 1]
        s1 == RecordTurn(s0, i, cp_index, checkpoint, user_response)
        attempt_count ==
            s1.question_progress[i].learning_mode_checkpoints[cp_index + 1].attempts
    IN  IF analysis = None
        THEN \* provide_adaptive_hint raised, after the turn was recorded
             Result(Put(store, s1),
                    HTTPException(500, "Failed to process checkpoint response"))
        ELSE LET hint_result == AdaptiveHint(attempt_count,
                                             analysis[1].understanding_level,
                                             analysis[1].should_advance)
                 should_advance == hint_result.should_advance
                 r == [op |-> "checkpoint_response", status_code |-> 200,
                       feedback |-> generate_encouragement(
                                        should_advance, hint_result.understanding_level),
                       hint |-> IF should_advance THEN None ELSE Some(hint_result),
                       should_advance |-> should_advance,
                       next_checkpoint |-> None,
                       learning_complete |-> FALSE]
             IN  IF should_advance
                 THEN AdvanceCheckpoint(store, s1, i, cp_index, question_id,
                                        checkpoints, r)
                 ELSE Result(Put(store, s1), r)

\* the position compared with the checkpoint list before the learning-mode flag is
\* looked at
checkpoint_response_endpoint_index_first(store, request, refetched, analysis) ==
    IF request.quiz_session_id \notin DOMAIN store
    THEN Result(store, HTTPException(404, "Quiz session not found"))
    ELSE LET s0 == store[request.quiz_session_id]
             i == ProgressIndex(s0, request.question_id)
         IN
         IF i = 0
         THEN Result(store, HTTPException(400, "Not in learning mode for this question"))
         ELSE IF s0.question_progress[i].current_checkpoint_index
                     >= Len(s0.question_progress[i].learning_mode_checkpoints)
         THEN Result(store, HTTPException(400, "All checkpoints completed"))
         ELSE IF ~s0.question_progress[i].in_learning_mode
         THEN Result(store, HTTPException(400, "Not in learning mode for this question"))
         ELSE
         LET cp_index == s0.question_progress[i].current_checkpoint_index
             question == s0.questions[QuestionIndex(s0, request.question_id)]
         IN
         IF \/ ConceptIndex(s0, question.concept_id) = 0
            \/ refetched = None
            \/ cp_index >= Len(refetched[1])
         THEN Result(store, HTTPException(500, "Internal Server Error"))
         ELSE RespondToCheckpoint(store, s0, i, cp_index, request.question_id,
                                  request.user_response, refetched[1], analysis)

\* request: CheckpointResponseRequest (its checkpoint_id is only logged);
\* refetched: what generate_checkpoints returned this time; analysis: the model's
\* answer inside provide_adaptive_hint
checkpoint_response_endpoint(store, request, refetched, analysis) ==
    IF request.quiz_session_id \notin DOMAIN store
    THEN Result(store, HTTPException(404, "Quiz session not found"))
    ELSE LET s0 == store[request.quiz_session_id]
             question_id == request.question_id
             user_response == request.user_response
             i == ProgressIndex(s0, question_id)
         IN
         IF i = 0 \/ ~s0.question_progress[i].in_learning_mode
         THEN Result(store, HTTPException(400, "Not in learning mode for this question"))
         ELSE IF s0.question_progress[i].current_checkpoint_index
                     >= Len(s0.question_progress[i].learning_mode_checkpoints)
         THEN Result(store, HTTPException(400, "All checkpoints completed"))
         ELSE
         LET cp_index == s0.question_progress[i].current_checkpoint_index
             question == s0.questions[QuestionIndex(s0, question_id)]
         IN
         IF \/ ConceptIndex(s0, question.concept_id) = 0   \* next() without default
            \/ refetched = None                            \* generate_checkpoints raised
            \/ cp_index >= Len(refetched[1])               \* checkpoints[cp_index]
         THEN \* raised before the try: nothing was written
              Result(store, HTTPException(500, "Internal Server Error"))
         ELSE RespondToCheckpoint(store, s0, i, cp_index, question_id, user_response,
                                  refetched[1], analysis)

----------------------------------------------------------------------------
(* Inputs and bounds *)

MaxWork == 3            \* state-changing requests served for one session
MaxHistory == 3         \* length of a history handed to analyze_attempts directly

Hints(levels) == [k \in 1..Len(levels) |-> [level |-> levels[k], text |-> "hint"]]

\* a generated quiz: q1 has all three authored hints, q2 only level 1, q3 none and
\* a concept id the concept list does not hold
QuizQuestions ==
    << [question_id |-> "q1", concept_id |-> "c1", correct_answer |-> "a",
        explanation |-> "e1", hints |-> Hints(<<1, 2, 3>>)],
       [question_id |-> "q2", concept_id |-> "c2", correct_answer |-> "b",
        explanation |-> "e2", hints |-> Hints(<<1>>)],
       [question_id |-> "q3", concept_id |-> "c9", correct_answer |-> "a",
        explanation |-> "e3", hints |-> Hints(<<>>)] >>

QuizConcepts == << [id |-> "c1", name |-> "n1"], [id |-> "c2", name |-> "n2"] >>

SessionIds == {"s1"}
UnknownSession == "s0"                      \* never created
RequestQuestionIds == {"q1", "q2", "q3", "q0"}
Options == {"a", "b"}

\* the requests sent: every request on a created session, one on an unknown one
SubmitAnswerRequests ==
    [quiz_session_id : SessionIds, question_id : RequestQuestionIds,
     selected_option : Options, time_spent_seconds : {Some(25)}]
    \cup {[quiz_session_id |-> UnknownSession, question_id |-> "q1",
           selected_option |-> "a", time_spent_seconds |-> None]}

GetHintRequests ==
    [quiz_session_id : SessionIds, question_id : {"q1", "q0"},
     hint_level : {0, 1, 3}, selected_option : {"b"}]
    \cup {[quiz_session_id |-> UnknownSession, question_id |-> "q1",
           hint_level |-> 1, selected_option |-> "b"]}

NavigateQuestionRequests ==
    [quiz_session_id : SessionIds, direction : {"next", "previous", "up"},
     target_question_index : {None}]
    \cup [quiz_session_id : SessionIds, direction : {"jump"},
          target_question_index :
              {None} \cup {Some(n) : n \in -1..(Len(QuizQuestions) + 1)}]
    \cup {[quiz_session_id |-> UnknownSession, direction |-> "next",
           target_question_index |-> None]}

EnterLearningModeRequests ==
    [quiz_session_id : SessionIds, question_id : RequestQuestionIds]
    \cup {[quiz_session_id |-> UnknownSession, question_id |-> "q1"]}

CheckpointResponseRequests ==
    [quiz_session_id : SessionIds, question_id : RequestQuestionIds,
     checkpoint_id : {"cp1"}, user_response : {"answer"}]
    \cup {[quiz_session_id |-> UnknownSession, question_id |-> "q1",
           checkpoint_id |-> "cp1", user_response |-> "answer"]}

SocraticOutcomes == {None, Some("socratic")}
\* generation raised, returned the quiz, or returned an empty list of questions
GeneratedQuizzes ==
    {None, Some([questions |-> QuizQuestions, concepts |-> QuizConcepts]),
     Some([questions |-> <<>>, concepts |-> QuizConcepts])}
GeneratedCheckpoints == {None} \cup {Some(CheckpointDefs(n)) : n \in {0, 1, 2}}
Analyses == {None,
             Some([understanding_level |-> "partial", should_advance |-> FALSE]),
             Some([understanding_level |-> "good", should_advance |-> TRUE])}

RECURSIVE SumSeq(_)
SumSeq(seq) == IF seq = <<>> THEN 0 ELSE Head(seq) + SumSeq(Tail(seq))

TotalAttempts(s) ==
    SumSeq([k \in 1..Len(s.question_progress) |-> Len(s.question_progress[k].attempts)])

TotalTurns(s) ==
    SumSeq([k \in 1..Len(s.question_progress) |->
              SumSeq([c \in 1..Len(s.question_progress[k].learning_mode_checkpoints) |->
                        s.question_progress[k].learning_mode_checkpoints[c].attempts])])

\* attempts, learning-mode entries and checkpoint turns the session has recorded
Work(s) == TotalAttempts(s) + s.learning_mode_triggered_count + TotalTurns(s)

\* room left for one more state-changing request on the session
HasBudget(sid) ==
    sid \in DOMAIN quiz_sessions => Work(quiz_sessions[sid]) < MaxWork

----------------------------------------------------------------------------
(* The session store driven through the HTTP handlers *)

NoAnalysis == [attempts |-> <<>>, time_spent_seconds |-> None]

Init ==
    /\ quiz_sessions = <<>>
    /\ analysis_input = NoAnalysis
    /\ analysis_report = None
    /\ transcript = <<>>
    /\ in_flight = <<>>

GenerateQuiz ==
    \E sid \in SessionIds, found \in BOOLEAN, g \in GeneratedQuizzes :
        /\ sid \notin DOMAIN quiz_sessions     \* a fresh uuid
        /\ quiz_sessions' = generate_quiz(quiz_sessions, sid, found, g).quiz_sessions
        /\ UNCHANGED <<analysis_input, analysis_report, transcript, in_flight>>

SubmitAnswer ==
    \E request \in SubmitAnswerRequests, h \in SocraticOutcomes :
        /\ HasBudget(request.quiz_session_id)
        /\ quiz_sessions' = submit_answer(quiz_sessions, request, h).quiz_sessions
        /\ UNCHANGED <<analysis_input, analysis_report, transcript, in_flight>>

GetHint ==
    \E request \in GetHintRequests, h \in SocraticOutcomes :
        /\ quiz_sessions' = get_hint(quiz_sessions, request, h).quiz_sessions
        /\ UNCHANGED <<analysis_input, analysis_report, transcript, in_flight>>

NavigateQuestion ==
    \E request \in NavigateQuestionRequests :
        /\ quiz_sessions' = navigate_question(quiz_sessions, request).quiz_sessions
        /\ UNCHANGED <<analysis_input, analysis_report, transcript, in_flight>>

EnterLearningMode ==
    \E request \in EnterLearningModeRequests, g \in GeneratedCheckpoints :
        /\ HasBudget(request.quiz_session_id)
        /\ quiz_sessions' =
               enter_learning_mode_endpoint(quiz_sessions, request, g).quiz_sessions
        /\ UNCHANGED <<analysis_input, analysis_report, transcript, in_flight>>

CheckpointResponse ==
    \E request \in CheckpointResponseRequests, g \in GeneratedCheckpoints,
       a \in Analyses :
        /\ HasBudget(request.quiz_session_id)
        /\ quiz_sessions' =
               checkpoint_response_endpoint(quiz_sessions, request, g, a).quiz_sessions
        /\ UNCHANGED <<analysis_input, analysis_report, transcript, in_flight>>

Next ==
    \/ GenerateQuiz
    \/ SubmitAnswer
    \/ GetHint
    \/ NavigateQuestion
    \/ EnterLearningMode
    \/ CheckpointResponse

Spec == Init /\ [][Next]_vars

----------------------------------------------------------------------------
(* StruggleDetector.analyze_attempts called directly on a bounded history *)

AnalysisOptions == {"a", "b", "c", "d"}
AnalysisTimes == {None, Some(0), Some(9), Some(25), Some(90)}
AttemptInputs ==
    {QuestionAttempt(o, c, None) : o \in AnalysisOptions, c \in BOOLEAN}

Histories ==
    UNION {[1..n -> AttemptInputs] : n \in 0..MaxHistory}

InitAnalysis ==
    /\ quiz_sessions = <<>>
    /\ analysis_input \in [attempts : Histories, time_spent_seconds : AnalysisTimes]
    /\ analysis_report = None
    /\ transcript = <<>>
    /\ in_flight = <<>>

AnalyzeAttempts ==
    /\ analysis_report = None
    /\ analysis_report' = Some(analyze_attempts(analysis_input.attempts,
                                                analysis_input.time_spent_seconds))
    /\ UNCHANGED <<quiz_sessions, analysis_input, transcript, in_flight>>

NextAnalysis == AnalyzeAttempts

SpecAnalysis == InitAnalysis /\ [][NextAnalysis]_vars

----------------------------------------------------------------------------
(* One sequence of attempts replayed against two sessions generated from the  *)
(* same questions; the elapsed times sent and the outcome of hint generation  *)
(* differ between the two                                                     *)

ReplayTimes == {None, Some(25)}

ReplayStore ==
    generate_quiz(
        generate_quiz(<<>>, "r1", TRUE, Some([questions |-> QuizQuestions,
                                              concepts |-> QuizConcepts])).quiz_sessions,
        "r2", TRUE, Some([questions |-> QuizQuestions,
                          concepts |-> QuizConcepts])).quiz_sessions

ReplayRequest(sid, question_id, selected_option, time_spent_seconds) ==
    [quiz_session_id |-> sid, question_id |-> question_id,
     selected_option |-> selected_option, time_spent_seconds |-> time_spent_seconds]

InitReplay ==
    /\ quiz_sessions = ReplayStore
    /\ analysis_input = NoAnalysis
    /\ analysis_report = None
    /\ transcript = <<>>
    /\ in_flight = <<>>

ReplayAttempt ==
    \E q \in RequestQuestionIds, o \in Options, t2 \in ReplayTimes,
       h1 \in SocraticOutcomes, h2 \in SocraticOutcomes :
        /\ Work(quiz_sessions["r1"]) < MaxWork
        /\ quiz_sessions' =
               submit_answer(
                   submit_answer(quiz_sessions, ReplayRequest("r1", q, o, Some(25)), h1)
                       .quiz_sessions,
                   ReplayRequest("r2", q, o, t2), h2).quiz_sessions
        /\ UNCHANGED <<analysis_input, analysis_report, transcript, in_flight>>

NextReplay == ReplayAttempt

SpecReplay == InitReplay /\ [][NextReplay]_vars

----------------------------------------------------------------------------
(* One learner working through a five-question quiz: Q1 answered correctly,   *)
(* Q2 answered b, b, c, Learning Mode entered on Q2 with three checkpoints    *)
(* and each of them advanced, Q2 answered correctly.  The elapsed times sent, *)
(* the outcome of hint generation and the analyzer's grading vary.            *)

ScenarioQuestions ==
    [k \in 1..5 |->
        [question_id |-> <<"q1", "q2", "q3", "q4", "q5">>[k],
         concept_id |-> IF k % 2 = 1 THEN "c1" ELSE "c2",
         correct_answer |-> "a",
         explanation |-> "e",
         hints |-> Hints(<<1, 2, 3>>)]]

Answer(question_id, selected_option) ==
    [op |-> "submit_answer", question_id |-> question_id,
     selected_option |-> selected_option]

ScenarioScript ==
    << Answer("q1", "a"),
       Answer("q2", "b"), Answer("q2", "b"), Answer("q2", "c"),
       [op |-> "enter_learning_mode", question_id |-> "q2"],
       [op |-> "checkpoint_response", question_id |-> "q2"],
       [op |-> "checkpoint_response", question_id |-> "q2"],
       [op |-> "checkpoint_response", question_id |-> "q2"],
       Answer("q2", "a") >>

ScenarioCheckpoints == Some(CheckpointDefs(3))

AdvancingAnalyses ==
    {Some([understanding_level |-> u, should_advance |-> TRUE]) : u \in {"good", "mastery"}}

\* the learner's next step, when one is left
NextStepIs(op) ==
    /\ Len(transcript) < Len(ScenarioScript)
    /\ ScenarioScript[Len(transcript) + 1].op = op

NextStep == ScenarioScript[Len(transcript) + 1]

InitScenario ==
    /\ quiz_sessions =
           generate_quiz(<<>>, "s1", TRUE,
                         Some([questions |-> ScenarioQuestions,
                               concepts |-> QuizConcepts])).quiz_sessions
    /\ analysis_input = NoAnalysis
    /\ analysis_report = None
    /\ transcript = <<>>
    /\ in_flight = <<>>

ScenarioSubmitAnswer ==
    \E t \in ReplayTimes, h \in SocraticOutcomes :
        /\ NextStepIs("submit_answer")
        /\ LET res == submit_answer(quiz_sessions,
                          ReplayRequest("s1", NextStep.question_id,
                                        NextStep.selected_option, t), h)
           IN  /\ quiz_sessions' = res.quiz_sessions
               /\ transcript' = Append(transcript, res.response)
        /\ UNCHANGED <<analysis_input, analysis_report, in_flight>>

ScenarioEnterLearningMode ==
    /\ NextStepIs("enter_learning_mode")
    /\ LET res == enter_learning_mode_endpoint(quiz_sessions,
                      [quiz_session_id |-> "s1", question_id |-> NextStep.question_id],
                      ScenarioCheckpoints)
       IN  /\ quiz_sessions' = res.quiz_sessions
           /\ transcript' = Append(transcript, res.response)
    /\ UNCHANGED <<analysis_input, analysis_report, in_flight>>

ScenarioCheckpointResponse ==
    \E a \in AdvancingAnalyses :
        /\ NextStepIs("checkpoint_response")
        /\ LET res == checkpoint_response_endpoint(quiz_sessions,
                          [quiz_session_id |-> "s1", question_id |-> NextStep.question_id,
                           checkpoint_id |-> "cp1", user_response |-> "answer"],
                          ScenarioCheckpoints, a)
           IN  /\ quiz_sessions' = res.quiz_sessions
               /\ transcript' = Append(transcript, res.response)
        /\ UNCHANGED <<analysis_input, analysis_report, in_flight>>

NextScenario ==
    \/ ScenarioSubmitAnswer
    \/ ScenarioEnterLearningMode
    \/ ScenarioCheckpointResponse

SpecScenario == InitScenario /\ [][NextScenario]_vars

----------------------------------------------------------------------------
(* The handlers as tasks of one asyncio event loop (main.py: uvicorn.run of   *)
(* one app).  Requests arrive while others are pending; the loop resumes one  *)
(* pending task at a time and the task runs to its next await that suspends,  *)
(* or to its end.  A task holds the locals its handler keeps across an await. *)

MaxCalls == 2           \* requests sent to the loop

\* the provider call awaited as a coroutine that yields to the loop
ProviderCallSuspends_async_client == TRUE

\* llm.py: every await of the quiz handlers ends in LLMService._generate_gemini or
\* _generate_groq, which call gemini_model.generate_content and
\* groq_client.chat.completions.create synchronously: no await under a handler
\* yields to the loop
ProviderCallSuspends == FALSE

Task(op, request) ==
    [op |-> op, request |-> request, pc |-> "start", status_code |-> 0,
     i |-> 0,                  \* position of q_progress in question_progress
     hint_level |-> 0,         \* submit_answer: hint_level
     cp_index |-> 0,           \* checkpoint_response_endpoint: cp_index
     cp_progress |-> None,     \* cp_progress once it is no longer in the session
     socratic_hint |-> None,   \* what generate_socratic_hint gave this task
     generated |-> None,       \* what generate_checkpoints gave this task
     analysis |-> None]        \* what provide_adaptive_hint gave this task

\* the session in Learning Mode on q1 with the three checkpoints the handler asks for
LoopStore ==
    enter_learning_mode_endpoint(
        generate_quiz(<<>>, "s1", TRUE, Some([questions |-> QuizQuestions,
                                              concepts |-> QuizConcepts])).quiz_sessions,
        [quiz_session_id |-> "s1", question_id |-> "q1"],
        Some(CheckpointDefs(3))).quiz_sessions

LoopCalls ==
    {Task("submit_answer", ReplayRequest("s1", "q1", o, Some(25))) : o \in Options}
    \cup {Task("enter_learning_mode", [quiz_session_id |-> "s1", question_id |-> "q1"]),
          Task("checkpoint_response",
               [quiz_session_id |-> "s1", question_id |-> "q1",
                checkpoint_id |-> "cp1", user_response |-> "answer"])}

LoopCheckpoints == {None, Some(CheckpointDefs(2)), Some(CheckpointDefs(3))}

\* the task ends: the handler returned or raised
Finish(L, id, status_code) ==
    [L EXCEPT !.tasks[id].pc = "done", !.tasks[id].status_code = status_code]

\* submit_answer up to `await socratic_hint_gen.generate_socratic_hint`
SubmitAnswerStart(L, id) ==
    LET request == L.tasks[id].request
        sid == request.quiz_session_id
    IN  IF sid \notin DOMAIN L.store THEN Finish(L, id, 404)
        ELSE IF QuestionIndex(L.store[sid], request.question_id) = 0
        THEN Finish(L, id, 404)
        ELSE LET s0 == L.store[sid]
                 question == s0.questions[QuestionIndex(s0, request.question_id)]
                 is_correct == request.selected_option = question.correct_answer
                 s1 == record_attempt(s0, request.question_id, request.selected_option,
                                      is_correct, request.time_spent_seconds)
                 i == ProgressIndex(s1, request.question_id)
                 wrong_count ==
                     analyze_attempts(s1.question_progress[i].attempts,
                                      request.time_spent_seconds).wrong_attempt_count
             IN  IF is_correct
                 THEN Finish([L EXCEPT !.store = Put(L.store, AdvanceOrComplete(s1))],
                             id, 200)
                 ELSE [L EXCEPT !.store = Put(L.store, s1),
                                !.tasks[id].pc = "generate_socratic_hint",
                                !.tasks[id].i = i,
                                !.tasks[id].hint_level = HintLevelFor(wrong_count)]

\* submit_answer from the await on: "Track hint usage" and the response
SubmitAnswerResume(L, id, socratic_hint) ==
    LET f == L.tasks[id]
        s == L.store[f.request.quiz_session_id]
    IN  Finish([L EXCEPT !.store = Put(L.store, TrackHint(s, f.i, f.hint_level)),
                         !.tasks[id].socratic_hint = socratic_hint],
               id, 200)

\* enter_learning_mode_endpoint up to `await learning_coach.generate_checkpoints`
EnterLearningModeStart(L, id) ==
    LET request == L.tasks[id].request
        sid == request.quiz_session_id
    IN  IF sid \notin DOMAIN L.store THEN Finish(L, id, 404)
        ELSE IF QuestionIndex(L.store[sid], request.question_id) = 0
        THEN Finish(L, id, 404)
        ELSE LET s == L.store[sid]
                 question == s.questions[QuestionIndex(s, request.question_id)]
             IN  IF ConceptIndex(s, question.concept_id) = 0
                 THEN Finish(L, id, 404)
                 ELSE [L EXCEPT !.tasks[id].pc = "generate_checkpoints"]

\* session.enter_learning_mode replaces the question's list of CheckpointProgress
\* objects: a task that read cp_progress from the old list before its await keeps
\* that object, which the session no longer holds
Detach(f, s, sid, question_id) ==
    IF /\ f.op = "checkpoint_response"
       /\ f.pc \in {"generate_checkpoints", "provide_adaptive_hint"}
       /\ f.request.quiz_session_id = sid
       /\ f.request.question_id = question_id
       /\ f.cp_progress = None
    THEN [f EXCEPT !.cp_progress =
              Some(s.question_progress[f.i].learning_mode_checkpoints[f.cp_index + 1])]
    ELSE f

\* enter_learning_mode_endpoint from the await on
EnterLearningModeResume(L, id, generated) ==
    LET request == L.tasks[id].request
        sid == request.quiz_session_id
        s == L.store[sid]
        L1 == [L EXCEPT !.tasks[id].generated = generated]
    IN  IF generated = None
        THEN Finish(L1, id, 500)
        ELSE LET entered == enter_learning_mode(s, request.question_id, generated[1])
                 L2 == Finish([L1 EXCEPT !.store = Put(L.store, entered)], id,
                              IF Len(generated[1]) = 0 THEN 500 ELSE 200)
             IN  [store |-> L2.store,
                  tasks |-> [k \in DOMAIN L2.tasks |->
                                Detach(L2.tasks[k], s, sid, request.question_id)]]

\* checkpoint_response_endpoint up to `await learning_coach.generate_checkpoints`
CheckpointResponseStart(L, id) ==
    LET request == L.tasks[id].request
        sid == request.quiz_session_id
    IN  IF sid \notin DOMAIN L.store THEN Finish(L, id, 404)
        ELSE LET s0 == L.store[sid]
                 i == ProgressIndex(s0, request.question_id)
             IN  IF i = 0 \/ ~s0.question_progress[i].in_learning_mode
                 THEN Finish(L, id, 400)
                 ELSE IF s0.question_progress[i].current_checkpoint_index
                             >= Len(s0.question_progress[i].learning_mode_checkpoints)
                 THEN Finish(L, id, 400)
                 ELSE LET question == s0.questions[QuestionIndex(s0, request.question_id)]
                      IN  IF ConceptIndex(s0, question.concept_id) = 0
                          THEN Finish(L, id, 500)
                          ELSE [L EXCEPT
                                  !.tasks[id].pc = "generate_checkpoints",
                                  !.tasks[id].i = i,
                                  !.tasks[id].cp_index =
                                      s0.question_progress[i].current_checkpoint_index]

\* "Record conversation" on the CheckpointProgress object itself
RecordTurnOn(cp_progress, checkpoint, user_response) ==
    [cp_progress EXCEPT !.conversation_history =
                            Append(@, [question |-> checkpoint.socratic_question,
                                       answer |-> user_response]),
                        !.attempts = @ + 1]

\* checkpoint_response_endpoint between its two awaits: checkpoints[cp_index] and
\* "Record conversation", written through the cp_progress read before the await
CheckpointResponseRecord(L, id, refetched) ==
    LET f == L.tasks[id]
        s == L.store[f.request.quiz_session_id]
        L1 == [L EXCEPT !.tasks[id].generated = refetched]
    IN  IF refetched = None THEN Finish(L1, id, 500)
        ELSE IF f.cp_index >= Len(refetched[1]) THEN Finish(L1, id, 500)
        ELSE LET checkpoint == refetched[1][f.cp_index + 1]
             IN  IF f.cp_progress = None
                 THEN [L1 EXCEPT !.store = Put(L.store,
                                               RecordTurn(s, f.i, f.cp_index, checkpoint,
                                                          f.request.user_response)),
                                 !.tasks[id].pc = "provide_adaptive_hint"]
                 ELSE [L1 EXCEPT !.tasks[id].cp_progress =
                                     Some(RecordTurnOn(f.cp_progress[1], checkpoint,
                                                       f.request.user_response)),
                                 !.tasks[id].pc = "provide_adaptive_hint"]

\* "Mark current checkpoint complete" to the end of the try, for a cp_progress
\* the session no longer holds: the object is completed, the session's index moves
AdvanceDetached(L, id) ==
    LET f == L.tasks[id]
        request == f.request
        s1 == L.store[request.quiz_session_id]
        s2 == [s1 EXCEPT !.question_progress[f.i].current_checkpoint_index = @ + 1]
        new_index == s2.question_progress[f.i].current_checkpoint_index
        L1 == [L EXCEPT !.tasks[id].cp_progress =
                            Some([f.cp_progress[1] EXCEPT !.status = "completed",
                                                          !.completed_at = Some(NOW)])]
    IN  IF MoreCheckpoints(new_index, Len(f.generated[1]))
        THEN IF new_index >= Len(s2.question_progress[f.i].learning_mode_checkpoints)
             THEN Finish([L1 EXCEPT !.store = Put(L.store, s2)], id, 500)
             ELSE Finish([L1 EXCEPT !.store =
                                       Put(L.store, StartCheckpoint(s2, f.i, new_index))],
                         id, 200)
        ELSE Finish([L1 EXCEPT !.store =
                                  Put(L.store, exit_learning_mode(s2, request.question_id))],
                    id, 200)

\* checkpoint_response_endpoint from `await learning_coach.provide_adaptive_hint` on
CheckpointResponseResume(L, id, analysis) ==
    LET f == L.tasks[id]
        request == f.request
        s1 == L.store[request.quiz_session_id]
        L1 == [L EXCEPT !.tasks[id].analysis = analysis]
        attempt_count ==
            IF f.cp_progress = None
            THEN s1.question_progress[f.i].learning_mode_checkpoints[f.cp_index + 1].attempts
            ELSE f.cp_progress[1].attempts
    IN  IF analysis = None THEN Finish(L1, id, 500)
        ELSE IF ~AdaptiveHint(attempt_count, analysis[1].understanding_level,
                              analysis[1].should_advance).should_advance
        THEN Finish(L1, id, 200)
        ELSE IF f.cp_progress = None
        THEN LET res == AdvanceCheckpoint(L.store, s1, f.i, f.cp_index,
                                          request.question_id, f.generated[1],
                                          [status_code |-> 200, next_checkpoint |-> None,
                                           learning_complete |-> FALSE,
                                           feedback |-> "good_progress"])
             IN  Finish([L1 EXCEPT !.store = res.quiz_sessions], id,
                        res.response.status_code)
        ELSE AdvanceDetached(L1, id)

\* the code of task id from where it stands to its next await, or to its end
Segment(L, id, socratic_hint, generated, analysis) ==
    LET f == L.tasks[id]
    IN  CASE f.op = "submit_answer" /\ f.pc = "start" -> SubmitAnswerStart(L, id)
          [] f.op = "submit_answer" /\ f.pc = "generate_socratic_hint" ->
                 SubmitAnswerResume(L, id, socratic_hint)
          [] f.op = "enter_learning_mode" /\ f.pc = "start" ->
                 EnterLearningModeStart(L, id)
          [] f.op = "enter_learning_mode" /\ f.pc = "generate_checkpoints" ->
                 EnterLearningModeResume(L, id, generated)
          [] f.op = "checkpoint_response" /\ f.pc = "start" ->
                 CheckpointResponseStart(L, id)
          [] f.op = "checkpoint_response" /\ f.pc = "generate_checkpoints" ->
                 CheckpointResponseRecord(L, id, generated)
          [] f.op = "checkpoint_response" /\ f.pc = "provide_adaptive_hint" ->
                 CheckpointResponseResume(L, id, analysis)

\* the loop gets control back when the task ended or its await suspended
Yields(f) == f.pc = "done" \/ ProviderCallSuspends

RECURSIVE RunTask(_, _, _, _, _)
RunTask(L, id, socratic_hint, generated, analysis) ==
    LET L1 == Segment(L, id, socratic_hint, generated, analysis)
    IN  IF Yields(L1.tasks[id]) THEN L1
        ELSE RunTask(L1, id, socratic_hint, generated, analysis)

InitLoop ==
    /\ quiz_sessions = LoopStore
    /\ analysis_input = NoAnalysis
    /\ analysis_report = None
    /\ transcript = <<>>
    /\ in_flight = <<>>

\* a request reaches the server: its handler becomes a task of the loop
Arrive ==
    \E call \in LoopCalls :
        /\ Len(in_flight) < MaxCalls
        /\ in_flight' = Append(in_flight, call)
        /\ UNCHANGED <<quiz_sessions, analysis_input, analysis_report, transcript>>

\* the loop runs one pending task until it yields
Resume ==
    \E id \in DOMAIN in_flight, socratic_hint \in SocraticOutcomes,
       generated \in LoopCheckpoints, analysis \in Analyses :
        /\ in_flight[id].pc # "done"
        /\ LET L == RunTask([store |-> quiz_sessions, tasks |-> in_flight], id,
                            socratic_hint, generated, analysis)
           IN  /\ quiz_sessions' = L.store
               /\ in_flight' = L.tasks
        /\ UNCHANGED <<analysis_input, analysis_report, transcript>>

NextLoop == Arrive \/ Resume

SpecLoop == InitLoop /\ [][NextLoop]_vars

----------------------------------------------------------------------------
(* Two sessions generated from the same upload, each driven by its own        *)
(* requests                                                                   *)

PairSessions == {"p1", "p2"}

PairStore ==
    generate_quiz(
        generate_quiz(<<>>, "p1", TRUE, Some([questions |-> QuizQuestions,
                                              concepts |-> QuizConcepts])).quiz_sessions,
        "p2", TRUE, Some([questions |-> QuizQuestions,
                          concepts |-> QuizConcepts])).quiz_sessions

PairSubmitAnswerRequests ==
    [quiz_session_id : PairSessions, question_id : {"q1"},
     selected_option : Options, time_spent_seconds : {Some(25)}]

PairNavigateQuestionRequests ==
    [quiz_session_id : PairSessions, direction : {"next", "previous"},
     target_question_index : {None}]

PairEnterLearningModeRequests ==
    [quiz_session_id : PairSessions, question_id : {"q1"}]

PairCheckpointResponseRequests ==
    [quiz_session_id : PairSessions, question_id : {"q1"},
     checkpoint_id : {"cp1"}, user_response : {"answer"}]

PairCheckpoints == {Some(CheckpointDefs(1))}

\* room left for one more state-changing request on either session
PairHasBudget ==
    Work(quiz_sessions["p1"]) + Work(quiz_sessions["p2"]) < MaxWork

InitPair ==
    /\ quiz_sessions = PairStore
    /\ analysis_input = NoAnalysis
    /\ analysis_report = None
    /\ transcript = <<>>
    /\ in_flight = <<>>

PairSubmitAnswer ==
    \E request \in PairSubmitAnswerRequests :
        /\ PairHasBudget
        /\ quiz_sessions' =
               submit_answer(quiz_sessions, request, Some("socratic")).quiz_sessions
        /\ UNCHANGED <<analysis_input, analysis_report, transcript, in_flight>>

PairNavigateQuestion ==
    \E request \in PairNavigateQuestionRequests :
        /\ quiz_sessions' = navigate_question(quiz_sessions, request).quiz_sessions
        /\ UNCHANGED <<analysis_input, analysis_report, transcript, in_flight>>

PairEnterLearningMode ==
    \E request \in PairEnterLearningModeRequests, g \in PairCheckpoints :
        /\ PairHasBudget
        /\ quiz_sessions' =
               enter_learning_mode_endpoint(quiz_sessions, request, g).quiz_sessions
        /\ UNCHANGED <<analysis_input, analysis_report, transcript, in_flight>>

PairCheckpointResponse ==
    \E request \in PairCheckpointResponseRequests, g \in PairCheckpoints,
       a \in AdvancingAnalyses :
        /\ PairHasBudget
        /\ quiz_sessions' =
               checkpoint_response_endpoint(quiz_sessions, request, g, a).quiz_sessions
        /\ UNCHANGED <<analysis_input, analysis_report, transcript, in_flight>>

NextPair ==
    \/ PairSubmitAnswer
    \/ PairNavigateQuestion
    \/ PairEnterLearningMode
    \/ PairCheckpointResponse

SpecPair == InitPair /\ [][NextPair]_vars

----------------------------------------------------------------------------
(* Claims.  s is a session before a step and t the same session after it. *)

Common == DOMAIN quiz_sessions \cap DOMAIN quiz_sessions'

Questions(s) == 1..Len(s.question_progress)

CorrectAttempts(attempts) == {k \in 1..Len(attempts) : attempts[k].is_correct}

\* the step appended one attempt to question i
Appended(s, t, i) ==
    /\ Len(t.question_progress[i].attempts) = Len(s.question_progress[i].attempts) + 1
    /\ SubSeq(t.question_progress[i].attempts, 1, Len(s.question_progress[i].attempts))
           = s.question_progress[i].attempts

LastAttempt(t, i) ==
    t.question_progress[i].attempts[Len(t.question_progress[i].attempts)]

\* C1: after any sequence of operations score <= total_questions, and a step that
\* records an attempt raises score by exactly 1 when that attempt is the first
\* correct one of its question and leaves score unchanged otherwise (a wrong
\* attempt, or a correct attempt on a question that already has a correct one).
C1_ScoreCountsFirstCorrectAttempts ==
    [][\A sid \in Common :
         LET s == quiz_sessions[sid]
             t == quiz_sessions'[sid]
         IN  /\ t.score <= t.total_questions
             /\ \A i \in Questions(s) :
                  Appended(s, t, i) =>
                      t.score = s.score +
                          (IF /\ LastAttempt(t, i).is_correct
                              /\ CorrectAttempts(s.question_progress[i].attempts) = {}
                           THEN 1 ELSE 0)]_vars

\* C2: a question whose status is CORRECT has exactly one attempt with
\* is_correct = true, and that attempt is the last of its attempt list.
C2_CorrectHasOneFinalCorrectAttempt ==
    \A sid \in DOMAIN quiz_sessions :
        \A i \in Questions(quiz_sessions[sid]) :
            LET qp == quiz_sessions[sid].question_progress[i]
            IN  qp.status = CORRECT =>
                    /\ Cardinality(CorrectAttempts(qp.attempts)) = 1
                    /\ qp.attempts[Len(qp.attempts)].is_correct

QuestionTransitions ==
    {<<NOT_ATTEMPTED, IN_PROGRESS>>, <<IN_PROGRESS, CORRECT>>,
     <<IN_PROGRESS, LEARNING_MODE>>, <<LEARNING_MODE, IN_PROGRESS>>}

\* C3: every change of a question's status is NOT_ATTEMPTED -> IN_PROGRESS,
\* IN_PROGRESS -> CORRECT, IN_PROGRESS -> LEARNING_MODE or LEARNING_MODE ->
\* IN_PROGRESS; in particular a CORRECT question never takes another status.
C3_QuestionStatusTransitions ==
    [][\A sid \in Common :
         \A i \in Questions(quiz_sessions[sid]) :
            LET old == quiz_sessions[sid].question_progress[i].status
                new == quiz_sessions'[sid].question_progress[i].status
            IN  old # new => <<old, new>> \in QuestionTransitions]_vars

SessionTransitions ==
    {<<QS_NOT_STARTED, QS_IN_PROGRESS>>, <<QS_IN_PROGRESS, QS_LEARNING_MODE>>,
     <<QS_LEARNING_MODE, QS_IN_PROGRESS>>}

\* C4: every change of the session status is NOT_STARTED -> IN_PROGRESS,
\* IN_PROGRESS -> LEARNING_MODE, LEARNING_MODE -> IN_PROGRESS or a move into
\* COMPLETED, and a COMPLETED session never changes status again.
C4_SessionStatusTransitions ==
    [][\A sid \in Common :
         LET old == quiz_sessions[sid].status
             new == quiz_sessions'[sid].status
         IN  old # new =>
                 /\ old # QS_COMPLETED
                 /\ new = QS_COMPLETED \/ <<old, new>> \in SessionTransitions]_vars

\* the step advanced question i past the last checkpoint allocated for it
AdvancedPastLastCheckpoint(s, t, i) ==
    LET qp == s.question_progress[i]
    IN  /\ qp.in_learning_mode
        /\ Len(qp.learning_mode_checkpoints) > 0
        /\ Len(t.question_progress[i].learning_mode_checkpoints)
               = Len(qp.learning_mode_checkpoints)
        /\ qp.current_checkpoint_index = Len(qp.learning_mode_checkpoints) - 1
        /\ t.question_progress[i].learning_mode_checkpoints[
               Len(qp.learning_mode_checkpoints)].status = "completed"
        /\ t.question_progress[i].current_checkpoint_index
               = qp.current_checkpoint_index + 1

\* C5: when a question is in Learning Mode and a checkpoint response advances past
\* its last checkpoint, the question's status becomes IN_PROGRESS (not CORRECT), its
\* learning-mode flag is cleared and score is unchanged; a question becomes CORRECT
\* only by a step that records a correct attempt on it.
C5_LearningModeEndsInProgress ==
    [][\A sid \in Common :
         LET s == quiz_sessions[sid]
             t == quiz_sessions'[sid]
         IN  \A i \in Questions(s) :
                /\ AdvancedPastLastCheckpoint(s, t, i) =>
                       /\ t.question_progress[i].status = IN_PROGRESS
                       /\ ~t.question_progress[i].in_learning_mode
                       /\ t.score = s.score
                /\ (/\ s.question_progress[i].status # CORRECT
                    /\ t.question_progress[i].status = CORRECT) =>
                       Appended(s, t, i) /\ LastAttempt(t, i).is_correct]_vars

----------------------------------------------------------------------------
(* Hint escalation *)

IsWrongAttemptResponse(response) ==
    response.op = "submit_answer" /\ ~response.is_correct

\* wrong attempts recorded for the question with this id
NumberWrong(attempts) == Len(SelectSeq(attempts, LAMBDA a : a.is_correct = FALSE))

RecordedWrong(s, question_id) ==
    NumberWrong(s.question_progress[
        CHOOSE i \in Questions(s) : s.question_progress[i].question_id = question_id
    ].attempts)

\* C6: the hint level returned with a wrong attempt equals min(wrongCount, 3), where
\* wrongCount is the number of wrong attempts recorded for that question including
\* this one; the level returned with the next wrong attempt on the same question is
\* never lower.
C6_HintLevelIsCappedWrongCount ==
    \A r \in SubmitAnswerRequests, h \in SocraticOutcomes :
        LET res == submit_answer(quiz_sessions, r, h)
        IN  IsWrongAttemptResponse(res.response) =>
                LET wrongCount ==
                        RecordedWrong(res.quiz_sessions[r.quiz_session_id], r.question_id)
                    level == res.response.current_hint_level
                IN  /\ level = Some(IF wrongCount < 3 THEN wrongCount ELSE 3)
                    /\ \A again \in SubmitAnswerRequests :
                           LET next == submit_answer(res.quiz_sessions, again, h)
                           IN  (/\ again.quiz_session_id = r.quiz_session_id
                                /\ again.question_id = r.question_id
                                /\ IsWrongAttemptResponse(next.response)) =>
                                   next.response.current_hint_level[1] >= level[1]

\* three wrong attempts recorded on one question, levels 1, 2, 3 shown in turn
C6_ThreeWrongAttemptsEscalated ==
    \E sid \in DOMAIN quiz_sessions :
        \E i \in Questions(quiz_sessions[sid]) :
            /\ NumberWrong(quiz_sessions[sid].question_progress[i].attempts) = 3
            /\ quiz_sessions[sid].question_progress[i].hints_used = <<1, 2, 3>>

----------------------------------------------------------------------------
(* Struggle analysis *)

\* the same history with every selection replaced by one option
SameOption(attempts) ==
    [k \in 1..Len(attempts) |-> [attempts[k] EXCEPT !.selected_option = "a"]]

\* C7: analyze returns shouldTriggerLearningMode = true iff the number of attempts
\* with is_correct = false is at least 3; the value is the same for the history
\* with other options selected and with any elapsed time supplied or omitted.
C7_TriggerIffThreeWrong ==
    analysis_report # None =>
        LET trigger == analysis_report[1].should_trigger_learning_mode
        IN  /\ trigger <=> NumberWrong(analysis_input.attempts) >= 3
            /\ \A elapsed \in AnalysisTimes :
                   analyze_attempts(SameOption(analysis_input.attempts), elapsed)
                       .should_trigger_learning_mode = trigger

\* a report that triggers Learning Mode on three wrong attempts among distinct
\* selections, with a time analysis
C7_TriggeredReport ==
    /\ analysis_report # None
    /\ analysis_report[1].should_trigger_learning_mode
    /\ analysis_report[1].wrong_attempt_count = 3
    /\ analysis_report[1].pattern_analysis.pattern_type = "random_guessing"
    /\ analysis_report[1].time_analysis # None

\* C8: over the selected option ids, correctness ignored: fewer than 2 attempts is
\* insufficient_data; otherwise all selections identical is consistent_misconception
\* carrying that option; otherwise all pairwise distinct is random_guessing; otherwise
\* mixed, carrying for each distinct option the number of times it was selected.
C8_PatternClassification ==
    analysis_report # None =>
        LET attempts == analysis_input.attempts
            picked == [k \in 1..Len(attempts) |-> attempts[k].selected_option]
            pattern == analysis_report[1].pattern_analysis
        IN  IF Len(picked) < 2
            THEN pattern.pattern_type = "insufficient_data"
            ELSE IF \A j, k \in 1..Len(picked) : picked[j] = picked[k]
            THEN /\ pattern.pattern_type = "consistent_misconception"
                 /\ pattern.repeated_option = picked[1]
            ELSE IF \A j, k \in 1..Len(picked) : j # k => picked[j] # picked[k]
            THEN pattern.pattern_type = "random_guessing"
            ELSE /\ pattern.pattern_type = "mixed"
                 /\ DOMAIN pattern.option_frequencies = {picked[k] : k \in 1..Len(picked)}
                 /\ \A opt \in DOMAIN pattern.option_frequencies :
                        pattern.option_frequencies[opt]
                            = Cardinality({k \in 1..Len(picked) : picked[k] = opt})

\* a mixed report on a history holding a correct attempt: one option twice, one once
C8_MixedReport ==
    /\ analysis_report # None
    /\ analysis_report[1].pattern_analysis.pattern_type = "mixed"
    /\ \E k \in 1..Len(analysis_input.attempts) : analysis_input.attempts[k].is_correct
    /\ \E o \in AnalysisOptions :
           /\ o \in DOMAIN analysis_report[1].pattern_analysis.option_frequencies
           /\ analysis_report[1].pattern_analysis.option_frequencies[o] = 2

----------------------------------------------------------------------------
(* Navigation *)

\* the two rejections of navigate: both are HTTP 400
OutOfRange(response) ==
    /\ response.op = "HTTPException"
    /\ response.status_code = 400
    /\ response.detail \in {"Already at first question", "Already at last question"}

InvalidIndex(response) ==
    /\ response.op = "HTTPException"
    /\ response.status_code = 400
    /\ response.detail \in {"target_question_index required for jump",
                            "Invalid question index"}

LastIndex(s) == s.total_questions - 1

\* C9: navigate fails with OutOfRange for previous at index 0 and for next at the
\* last index, and with InvalidIndex for jump with a missing target or a 1-indexed
\* target outside [1, totalQuestions]; in each failing case the session (current
\* index and every question's progress) is left unchanged.
C9_NavigateRejections ==
    \A r \in NavigateQuestionRequests :
        r.quiz_session_id \in DOMAIN quiz_sessions =>
            LET s == quiz_sessions[r.quiz_session_id]
                res == navigate_question(quiz_sessions, r)
                target == r.target_question_index
            IN  /\ (r.direction = "previous" /\ s.current_question_index = 0) =>
                       OutOfRange(res.response) /\ res.quiz_sessions = quiz_sessions
                /\ (r.direction = "next" /\ s.current_question_index = LastIndex(s)) =>
                       OutOfRange(res.response) /\ res.quiz_sessions = quiz_sessions
                /\ (r.direction = "jump" /\ target = None) =>
                       InvalidIndex(res.response) /\ res.quiz_sessions = quiz_sessions
                /\ (/\ r.direction = "jump"
                    /\ target # None
                    /\ (target[1] < 1 \/ target[1] > s.total_questions)) =>
                       InvalidIndex(res.response) /\ res.quiz_sessions = quiz_sessions

\* a session standing on its last question with work recorded, where next and a
\* jump one past the end are both rejected
C9_RejectedAtLastQuestion ==
    \E sid \in DOMAIN quiz_sessions :
        LET s == quiz_sessions[sid]
        IN  /\ s.current_question_index = LastIndex(s)
            /\ s.status # QS_COMPLETED
            /\ TotalAttempts(s) > 0
            /\ OutOfRange(navigate_question(quiz_sessions,
                   [quiz_session_id |-> sid, direction |-> "next",
                    target_question_index |-> None]).response)
            /\ InvalidIndex(navigate_question(quiz_sessions,
                   [quiz_session_id |-> sid, direction |-> "jump",
                    target_question_index |-> Some(s.total_questions + 1)]).response)

\* the request is served: the handler returns the navigated-to question
Navigated(response) == response.op = "navigate_question"

\* a correct answer to the question the session stands on
CorrectAnswers(s) ==
    {r \in SubmitAnswerRequests :
        /\ r.quiz_session_id = s.session_id
        /\ \E k \in 1..Len(s.questions) :
               /\ s.questions[k].question_id = r.question_id
               /\ s.questions[k].correct_answer = r.selected_option}

\* C10 as stated: a successful navigate leaves unchanged the current_index used to
\* decide advance-or-complete, and the next correct attempt advances or completes
\* the session exactly as it would have had no navigation occurred.
C10_NavigateKeepsCurrentIndex ==
    \A r \in NavigateQuestionRequests :
        LET res == navigate_question(quiz_sessions, r)
        IN  Navigated(res.response) =>
                LET sid == r.quiz_session_id
                    s == quiz_sessions[sid]
                    t == res.quiz_sessions[sid]
                IN  /\ t.current_question_index = s.current_question_index
                    /\ \A a \in CorrectAnswers(s) :
                           LET with == submit_answer(res.quiz_sessions, a, None)
                               without == submit_answer(quiz_sessions, a, None)
                           IN  /\ with.quiz_sessions[sid].current_question_index
                                   = without.quiz_sessions[sid].current_question_index
                               /\ with.quiz_sessions[sid].status
                                   = without.quiz_sessions[sid].status

\* the index a served request names: one back, one on, or the 1-indexed target
NavigatedTo(s, r) ==
    IF r.direction = "previous" THEN s.current_question_index - 1
    ELSE IF r.direction = "next" THEN s.current_question_index + 1
    ELSE r.target_question_index[1] - 1

\* C10 as amended: a successful navigate sets the current_index used to decide
\* advance-or-complete to the navigated-to index; the next correct attempt moves
\* current_index to the question after the navigated-to one, or completes the
\* session when the navigated-to question is the last.
C10_NavigateSetsCurrentIndex ==
    \A r \in NavigateQuestionRequests :
        LET res == navigate_question(quiz_sessions, r)
        IN  Navigated(res.response) =>
                LET sid == r.quiz_session_id
                    s == quiz_sessions[sid]
                    t == res.quiz_sessions[sid]
                    to == NavigatedTo(s, r)
                IN  /\ t.current_question_index = to
                    /\ \A a \in CorrectAnswers(s) :
                           LET u == submit_answer(res.quiz_sessions, a, None)
                                        .quiz_sessions[sid]
                           IN  IF to < LastIndex(s)
                               THEN /\ u.current_question_index = to + 1
                                    /\ u.status = t.status
                               ELSE /\ u.current_question_index = to
                                    /\ u.status = QS_COMPLETED

\* a session completed on one correct answer: it was navigated to its last question
\* and answered there
C10_CompletedAfterNavigation ==
    \E sid \in DOMAIN quiz_sessions :
        LET s == quiz_sessions[sid]
        IN  /\ s.status = QS_COMPLETED
            /\ s.score = 1
            /\ TotalAttempts(s) = 1
            /\ s.current_question_index = LastIndex(s)

\* C11: a successful navigate onto a question whose status is not_attempted sets
\* that question's status to in_progress and stamps its started_at; a successful
\* navigate onto a question with any other status changes no field of that
\* question's progress.
C11_NavigateMarksStarted ==
    \A r \in NavigateQuestionRequests :
        LET res == navigate_question(quiz_sessions, r)
        IN  Navigated(res.response) =>
                LET s == quiz_sessions[r.quiz_session_id]
                    t == res.quiz_sessions[r.quiz_session_id]
                    onto == res.response.question_index
                IN  IF s.question_progress[onto].status = NOT_ATTEMPTED
                    THEN /\ t.question_progress[onto].status = IN_PROGRESS
                         /\ t.question_progress[onto].started_at = Some(NOW)
                    ELSE t.question_progress[onto] = s.question_progress[onto]

----------------------------------------------------------------------------
(* Replay *)

\* what the replay compares: statuses, (selected option, correctness) lists, recorded
\* hint levels and score
ProgressHistory(s) ==
    [score |-> s.score,
     questions |->
        [i \in Questions(s) |->
            [question_id |-> s.question_progress[i].question_id,
             status |-> s.question_progress[i].status,
             attempts |->
                [k \in 1..Len(s.question_progress[i].attempts) |->
                    <<s.question_progress[i].attempts[k].selected_option,
                      s.question_progress[i].attempts[k].is_correct>>],
             hints_used |-> s.question_progress[i].hints_used]]]

\* C12: replaying the same sequence of recordAttempt calls (same question ids and
\* selected options, in the same order) against two fresh sessions built from the
\* same Questions yields identical per-question progress: the same statuses, the
\* same ordered (selected option, correctness) attempt lists, the same recorded hint
\* levels and the same score.
C12_ReplayIsDeterministic ==
    ProgressHistory(quiz_sessions["r1"]) = ProgressHistory(quiz_sessions["r2"])

\* two replays that differ in elapsed time, with a correct attempt scored and two
\* hint levels recorded on one question
C12_ReplayedWithOtherTimes ==
    LET a == quiz_sessions["r1"]
        b == quiz_sessions["r2"]
    IN  /\ a.score = 1
        /\ \E i \in Questions(a) :
               /\ a.question_progress[i].hints_used = <<1, 2>>
               /\ a.question_progress[i].attempts[1].time_spent_seconds
                      # b.question_progress[i].attempts[1].time_spent_seconds

----------------------------------------------------------------------------
(* Attempt lists *)

AttemptLists(s) == [i \in Questions(s) |-> s.question_progress[i].attempts]

\* the response of a request that recorded an attempt
Recorded(response) == response.op = "submit_answer"

\* C13: attempt lists are append-only: each successful recordAttempt lengthens the
\* target question's attempt list by exactly one element placed at the end, and no
\* operation (recordAttempt, navigate, enter, respond, exit, startQuiz) removes,
\* reorders or modifies an attempt already recorded, on that question or any other.
C13_AttemptsAppendOnly ==
    /\ [](\A r \in SubmitAnswerRequests, h \in SocraticOutcomes :
            LET res == submit_answer(quiz_sessions, r, h)
            IN  Recorded(res.response) =>
                    LET s == quiz_sessions[r.quiz_session_id]
                        t == res.quiz_sessions[r.quiz_session_id]
                    IN  \A i \in Questions(s) :
                            IF s.question_progress[i].question_id = r.question_id
                            THEN /\ Appended(s, t, i)
                                 /\ LastAttempt(t, i).selected_option = r.selected_option
                            ELSE AttemptLists(t)[i] = AttemptLists(s)[i])
    /\ [](\A sid \in DOMAIN quiz_sessions :
            LET s == quiz_sessions[sid]
            IN  /\ AttemptLists(start_quiz(s)) = AttemptLists(s)
                /\ AttemptLists(complete_quiz(s)) = AttemptLists(s)
                /\ \A i \in Questions(s) :
                       AttemptLists(exit_learning_mode(
                           s, s.question_progress[i].question_id)) = AttemptLists(s))
    /\ [][\A sid \in Common :
            LET s == quiz_sessions[sid]
                t == quiz_sessions'[sid]
            IN  \A i \in Questions(s) :
                    \/ AttemptLists(t)[i] = AttemptLists(s)[i]
                    \/ Appended(s, t, i)]_vars

\* a question holding two attempts in a session that has entered Learning Mode
C13_AttemptsKeptThroughLearningMode ==
    \E sid \in DOMAIN quiz_sessions :
        LET s == quiz_sessions[sid]
        IN  /\ s.learning_mode_triggered_count > 0
            /\ \E i \in Questions(s) : Len(s.question_progress[i].attempts) = 2

----------------------------------------------------------------------------
(* End to end *)

\* C14: in a started 5-question session, a correct first attempt on Q1 gives
\* score = 1 and current question Q2; three wrong attempts on Q2 with options
\* [b, b, c] give hint levels 1, 2, 3 in that order and a final struggle report of
\* SIGNIFICANT, shouldTriggerLearningMode = true, pattern mixed with frequencies
\* {b: 2, c: 1}; entering Learning Mode with 3 checkpoints and advancing through all
\* 3 leaves Q2 IN_PROGRESS; a correct attempt on Q2 then gives score = 2 and current
\* question Q3.
C14_EndToEnd ==
    LET s == quiz_sessions["s1"]
        done == Len(transcript)
    IN  /\ done = 1 =>
               /\ s.score = 1
               /\ s.questions[s.current_question_index + 1].question_id = "q2"
        /\ done >= 4 =>
               /\ [k \in 1..3 |-> transcript[k + 1].current_hint_level]
                      = <<Some(1), Some(2), Some(3)>>
               /\ LET report == transcript[4].struggle_analysis[1]
                  IN  /\ report.struggle_level = SL_SIGNIFICANT
                      /\ report.should_trigger_learning_mode
                      /\ report.pattern_analysis.pattern_type = "mixed"
                      /\ report.pattern_analysis.option_frequencies
                             = [o \in {"b", "c"} |-> IF o = "b" THEN 2 ELSE 1]
        /\ done = 8 =>
               /\ s.question_progress[2].status = IN_PROGRESS
               /\ \A k \in 1..3 :
                      s.question_progress[2].learning_mode_checkpoints[k].status
                          = "completed"
        /\ done = 9 =>
               /\ s.score = 2
               /\ s.questions[s.current_question_index + 1].question_id = "q3"

\* the learner has taken every step of the script
C14_ScriptFinished ==
    /\ Len(transcript) = Len(ScenarioScript)
    /\ transcript[8].op = "checkpoint_response"
    /\ transcript[8].learning_complete
    /\ transcript[9].is_correct

----------------------------------------------------------------------------
(* Quiz progression *)

Started(s) == s.status \in {QS_IN_PROGRESS, QS_LEARNING_MODE, QS_COMPLETED}

NotFound(response) ==
    /\ response.op = "HTTPException"
    /\ response.status_code = 404
    /\ response.detail = "Quiz session not found"

QuestionNotFound(response) ==
    /\ response.op = "HTTPException"
    /\ response.status_code = 404
    /\ response.detail = "Question not found"

Unknown(request) == request.quiz_session_id \notin DOMAIN quiz_sessions

Rejected(res, Failure(_)) ==
    Failure(res.response) /\ res.quiz_sessions = quiz_sessions

\* C16: an operation given a session id that the store does not hold fails with
\* NotFound, and recordAttempt given a questionId that does not belong to the
\* session fails with QuestionNotFound; in both cases no session in the store is
\* changed.
C16_UnknownIdsRejected ==
    /\ \A r \in SubmitAnswerRequests, h \in SocraticOutcomes :
           /\ Unknown(r) => Rejected(submit_answer(quiz_sessions, r, h), NotFound)
           /\ (/\ ~Unknown(r)
               /\ \A k \in 1..Len(quiz_sessions[r.quiz_session_id].questions) :
                      quiz_sessions[r.quiz_session_id].questions[k].question_id
                          # r.question_id) =>
                  Rejected(submit_answer(quiz_sessions, r, h), QuestionNotFound)
    /\ \A r \in GetHintRequests, h \in SocraticOutcomes :
           Unknown(r) => Rejected(get_hint(quiz_sessions, r, h), NotFound)
    /\ \A r \in NavigateQuestionRequests :
           Unknown(r) => Rejected(navigate_question(quiz_sessions, r), NotFound)
    /\ \A r \in EnterLearningModeRequests, g \in GeneratedCheckpoints :
           Unknown(r) =>
               Rejected(enter_learning_mode_endpoint(quiz_sessions, r, g), NotFound)
    /\ \A r \in CheckpointResponseRequests, g \in GeneratedCheckpoints, a \in Analyses :
           Unknown(r) =>
               Rejected(checkpoint_response_endpoint(quiz_sessions, r, g, a), NotFound)

\* a store holding a session with an attempt recorded, where a request for another
\* session and a request for a question the session does not hold are both rejected
C16_RejectedBesideLiveSession ==
    /\ \E sid \in DOMAIN quiz_sessions : TotalAttempts(quiz_sessions[sid]) > 0
    /\ \E r \in SubmitAnswerRequests :
           Unknown(r) /\ NotFound(submit_answer(quiz_sessions, r, None).response)
    /\ \E r \in SubmitAnswerRequests :
           ~Unknown(r) /\ QuestionNotFound(submit_answer(quiz_sessions, r, None).response)

\* the response of a correct attempt
CorrectAttemptResponse(response) ==
    response.op = "submit_answer" /\ response.is_correct

\* C17: after a correct attempt, advanceOrComplete does exactly one of two things:
\* if a question exists after the current one, current_index increases by exactly 1,
\* that next question is marked in_progress, its id is returned and the session
\* status is not COMPLETED; otherwise the session becomes COMPLETED with
\* completed_at stamped, current_index is unchanged and no id is returned.
C17_AdvanceOrComplete ==
    \A r \in SubmitAnswerRequests, h \in SocraticOutcomes :
        LET res == submit_answer(quiz_sessions, r, h)
        IN  CorrectAttemptResponse(res.response) =>
                LET s == quiz_sessions[r.quiz_session_id]
                    t == res.quiz_sessions[r.quiz_session_id]
                    current == s.current_question_index
                IN  IF current + 1 < Len(s.questions)
                    THEN /\ t.current_question_index = current + 1
                         /\ t.question_progress[current + 2].status = IN_PROGRESS
                         /\ res.response.next_question_id
                                = Some(s.questions[current + 2].question_id)
                         /\ t.status # QS_COMPLETED
                    ELSE /\ t.status = QS_COMPLETED
                         /\ t.completed_at = Some(NOW)
                         /\ t.current_question_index = current
                         /\ res.response.next_question_id = None

\* what a wrong attempt may not touch: everything but the target question's attempt
\* list and hint bookkeeping
Standing(s) ==
    [current_question_index |-> s.current_question_index,
     status |-> s.status,
     score |-> s.score,
     completed_at |-> s.completed_at,
     learning_mode_triggered_count |-> s.learning_mode_triggered_count,
     questions |->
        [i \in Questions(s) |->
            [s.question_progress[i] EXCEPT !.attempts = <<>>, !.hints_used = <<>>]]]

\* C18: an incorrect attempt never advances the session: after recordAttempt with a
\* wrong option, current_index, the session status, score and the status of every
\* question are the same as before the call; only the target question's attempt
\* list and hint bookkeeping change.
C18_WrongAttemptDoesNotAdvance ==
    \A r \in SubmitAnswerRequests, h \in SocraticOutcomes :
        LET res == submit_answer(quiz_sessions, r, h)
        IN  IsWrongAttemptResponse(res.response) =>
                LET s == quiz_sessions[r.quiz_session_id]
                    t == res.quiz_sessions[r.quiz_session_id]
                IN  /\ Standing(t) = Standing(s)
                    /\ \A i \in Questions(s) :
                           s.question_progress[i].question_id # r.question_id =>
                               t.question_progress[i] = s.question_progress[i]
                    /\ res.response.next_question_id = None

\* a question that holds a wrong attempt and a recorded hint level and is still
\* not_attempted, in a session standing on its first question
C18_WrongAttemptOnUnvisitedQuestion ==
    \E sid \in DOMAIN quiz_sessions :
        LET s == quiz_sessions[sid]
        IN  /\ s.current_question_index = 0
            /\ s.score = 0
            /\ \E i \in Questions(s) :
                   /\ s.question_progress[i].status = NOT_ATTEMPTED
                   /\ NumberWrong(s.question_progress[i].attempts) = 2
                   /\ s.question_progress[i].hints_used = <<1, 2>>

\* C19: the response to a wrong attempt carries the correct answer and explanation
\* if and only if the question's wrongCount is at least 3 at that attempt; once a
\* wrong attempt on a question has revealed them, every later wrong attempt on that
\* question reveals them too.
C19_RevealFromThirdWrongAttempt ==
    \A r \in SubmitAnswerRequests, h \in SocraticOutcomes :
        LET res == submit_answer(quiz_sessions, r, h)
        IN  IsWrongAttemptResponse(res.response) =>
                LET t == res.quiz_sessions[r.quiz_session_id]
                    question == CHOOSE q \in Range(t.questions) :
                                    q.question_id = r.question_id
                    revealed == res.response.correct_answer # None
                IN  /\ revealed <=> RecordedWrong(t, r.question_id) >= 3
                    /\ revealed <=> res.response.explanation # None
                    /\ revealed =>
                           /\ res.response.correct_answer = Some(question.correct_answer)
                           /\ res.response.explanation = Some(question.explanation)
                           /\ \A again \in SubmitAnswerRequests :
                                  LET next == submit_answer(res.quiz_sessions, again, h)
                                  IN  (/\ again.quiz_session_id = r.quiz_session_id
                                       /\ again.question_id = r.question_id
                                       /\ IsWrongAttemptResponse(next.response)) =>
                                          next.response.correct_answer
                                              = res.response.correct_answer

\* a question with three wrong attempts recorded, where one more wrong attempt is
\* answered with the correct option and the explanation
C19_RevealedAgain ==
    \E sid \in DOMAIN quiz_sessions :
        \E i \in Questions(quiz_sessions[sid]) :
            /\ NumberWrong(quiz_sessions[sid].question_progress[i].attempts) = 3
            /\ \E r \in SubmitAnswerRequests :
                   LET res == submit_answer(quiz_sessions, r, None)
                   IN  /\ r.quiz_session_id = sid
                       /\ r.question_id = quiz_sessions[sid].question_progress[i].question_id
                       /\ IsWrongAttemptResponse(res.response)
                       /\ res.response.correct_answer # None
                       /\ res.response.explanation # None
----------------------------------------------------------------------------
\* the store after one call served alone, from start to end, with the outcomes
\* its task was given
Serve(store, f) ==
    CASE f.op = "submit_answer" ->
             submit_answer(store, f.request, f.socratic_hint).quiz_sessions
      [] f.op = "enter_learning_mode" ->
             enter_learning_mode_endpoint(store, f.request, f.generated).quiz_sessions
      [] f.op = "checkpoint_response" ->
             checkpoint_response_endpoint(store, f.request, f.generated,
                                          f.analysis).quiz_sessions

RECURSIVE ServeInOrder(_, _, _)
ServeInOrder(store, tasks, order) ==
    IF order = <<>> THEN store
    ELSE ServeInOrder(Serve(store, tasks[Head(order)]), tasks, Tail(order))

Returned == {id \in DOMAIN in_flight : in_flight[id].pc = "done"}

Orders(ids) ==
    {o \in [1..Cardinality(ids) -> ids] :
        \A a, b \in 1..Cardinality(ids) : a # b => o[a] # o[b]}

\* every checkpoint the learner was moved past has been completed
NoCheckpointSkipped ==
    \A sid \in DOMAIN quiz_sessions :
        \A i \in DOMAIN quiz_sessions[sid].question_progress :
            LET qp == quiz_sessions[sid].question_progress[i]
            IN  \A k \in DOMAIN qp.learning_mode_checkpoints :
                    k <= qp.current_checkpoint_index
                        => qp.learning_mode_checkpoints[k].status = "completed"

\* no task stands between two parts of its handler
NoCallMidway == \A id \in DOMAIN in_flight : in_flight[id].pc \in {"start", "done"}

----------------------------------------------------------------------------
\* every request of the two-session store addressed to session sid, with the
\* store each handler leaves
ServedFor(sid) ==
    {submit_answer(quiz_sessions, r, h).quiz_sessions :
         r \in {q \in PairSubmitAnswerRequests : q.quiz_session_id = sid},
         h \in SocraticOutcomes}
    \cup {navigate_question(quiz_sessions, r).quiz_sessions :
              r \in {q \in PairNavigateQuestionRequests : q.quiz_session_id = sid}}
    \cup {enter_learning_mode_endpoint(quiz_sessions, r, g).quiz_sessions :
              r \in {q \in PairEnterLearningModeRequests : q.quiz_session_id = sid},
              g \in GeneratedCheckpoints}
    \cup {checkpoint_response_endpoint(quiz_sessions, r, g, a).quiz_sessions :
              r \in {q \in PairCheckpointResponseRequests : q.quiz_session_id = sid},
              g \in GeneratedCheckpoints, a \in Analyses}
    \cup {Put(quiz_sessions, f) :
              f \in {start_quiz(quiz_sessions[sid]),
                     complete_quiz(quiz_sessions[sid]),
                     exit_learning_mode(quiz_sessions[sid], "q1")}}

\* C21: whatever request is served for one session, and whichever of start_quiz,
\* exit_learning_mode and complete_quiz is applied to it, every other session of
\* the store is left exactly as it was, and no session appears or disappears.
C21_SessionsIsolated ==
    \A sid \in PairSessions : \A after \in ServedFor(sid) :
        /\ DOMAIN after = DOMAIN quiz_sessions
        /\ \A other \in PairSessions \ {sid} : after[other] = quiz_sessions[other]

\* C21 witness: one session has recorded an attempt and been through Learning
\* Mode while the other still is as generated.
C21_OneSessionWorkedOtherUntouched ==
    /\ Len(quiz_sessions["p1"].question_progress[1].attempts) > 0
    /\ quiz_sessions["p1"].learning_mode_triggered_count > 0
    /\ Len(quiz_sessions["p1"].question_progress[1].learning_mode_checkpoints) > 0
    /\ quiz_sessions["p2"] = PairStore["p2"]
----------------------------------------------------------------------------
\* C22: in every session the progress list is as long as the question list with
\* progress[i] carrying the id of questions[i], and once the session is started
\* 0 <= current_question_index < len(questions).
C22_ProgressAlignedIndexInRange ==
    \A sid \in DOMAIN quiz_sessions :
        LET s == quiz_sessions[sid]
        IN  /\ Len(s.question_progress) = Len(s.questions)
            /\ \A i \in DOMAIN s.questions :
                   s.question_progress[i].question_id = s.questions[i].question_id
            /\ s.status # QS_NOT_STARTED =>
                   /\ 0 <= s.current_question_index
                   /\ s.current_question_index < Len(s.questions)
----------------------------------------------------------------------------
\* the question's authored hint for this level, when it has one
AuthoredHints(question, level) == {h \in Range(question.hints) : h.level = level}

GenericPlaceholder == [level |-> 3, text |-> "Try again!"]

\* C23: a wrong attempt is answered with a hint whether hint generation succeeded
\* or failed, and when it failed the hint is the question's authored hint for
\* exactly the computed level if there is one, and the generic placeholder if the
\* question has no authored hint for that level.
C23_FallbackHintForComputedLevel ==
    \A r \in SubmitAnswerRequests, h \in SocraticOutcomes :
        LET res == submit_answer(quiz_sessions, r, h)
        IN  IsWrongAttemptResponse(res.response) =>
                LET s == quiz_sessions[r.quiz_session_id]
                    question == s.questions[QuestionIndex(s, r.question_id)]
                    level == res.response.current_hint_level[1]
                IN  /\ res.response.status_code = 200
                    /\ res.response.hint # None
                    /\ h = None =>
                           IF AuthoredHints(question, level) # {}
                           THEN res.response.hint[1] \in AuthoredHints(question, level)
                           ELSE res.response.hint[1] = GenericPlaceholder
----------------------------------------------------------------------------
\* C24: for the same wrong attempt the session left behind is the same whether hint
\* generation returned or raised, with exactly one more wrong attempt on the
\* question than before; and a get-hint request whose generation raised leaves
\* every session as it was: no attempt added, no status changed.
C24_HintFailureChangesNoState ==
    /\ \A r \in SubmitAnswerRequests :
           LET generated == submit_answer(quiz_sessions, r, Some("socratic"))
               failed == submit_answer(quiz_sessions, r, None)
           IN  IsWrongAttemptResponse(failed.response) =>
                   /\ IsWrongAttemptResponse(generated.response)
                   /\ failed.quiz_sessions = generated.quiz_sessions
                   /\ RecordedWrong(failed.quiz_sessions[r.quiz_session_id], r.question_id)
                          = RecordedWrong(quiz_sessions[r.quiz_session_id], r.question_id) + 1
    /\ \A r \in GetHintRequests :
           get_hint(quiz_sessions, r, None).quiz_sessions = quiz_sessions

\* C24 witness: a question with two wrong attempts recorded in a session that is in
\* progress, where the next wrong attempt and a hint request can both meet a failing
\* generator.
C24_WrongAttemptsBeforeFailure ==
    \E sid \in DOMAIN quiz_sessions :
        /\ quiz_sessions[sid].status = QS_IN_PROGRESS
        /\ quiz_sessions[sid].questions # <<>>
        /\ RecordedWrong(quiz_sessions[sid], "q1") = 2
        /\ IsWrongAttemptResponse(
               submit_answer(quiz_sessions,
                             [quiz_session_id |-> sid, question_id |-> "q1",
                              selected_option |-> "b",
                              time_spent_seconds |-> Some(25)], None).response)
        /\ get_hint(quiz_sessions,
                    [quiz_session_id |-> sid, question_id |-> "q1", hint_level |-> 1,
                     selected_option |-> "b"], None).response.status_code = 500
----------------------------------------------------------------------------
\* the hint levels recorded as shown for the question with this id
ShownLevels(s, question_id) ==
    Range(s.question_progress[ProgressIndex(s, question_id)].hints_used)

\* C25: each hint level shown for a question, with a wrong attempt or by an explicit
\* get-hint request, is in the question's recorded hint levels afterwards, and when
\* the level was recorded already the recorded levels and hints_used_total are
\* left unchanged.
C25_ShownLevelsRecordedOnce ==
    /\ \A r \in SubmitAnswerRequests, h \in SocraticOutcomes :
           LET res == submit_answer(quiz_sessions, r, h)
           IN  IsWrongAttemptResponse(res.response) =>
                   LET s == quiz_sessions[r.quiz_session_id]
                       t == res.quiz_sessions[r.quiz_session_id]
                       level == res.response.current_hint_level[1]
                   IN  /\ level \in ShownLevels(t, r.question_id)
                       /\ level \in ShownLevels(s, r.question_id) =>
                              /\ ShownLevels(t, r.question_id) = ShownLevels(s, r.question_id)
                              /\ t.hints_used_total = s.hints_used_total
    /\ \A r \in GetHintRequests, h \in SocraticOutcomes :
           LET res == get_hint(quiz_sessions, r, h)
           IN  res.response.op = "get_hint" =>
                   LET s == quiz_sessions[r.quiz_session_id]
                       t == res.quiz_sessions[r.quiz_session_id]
                   IN  /\ r.hint_level \in ShownLevels(t, r.question_id)
                       /\ r.hint_level \in ShownLevels(s, r.question_id) =>
                              /\ ShownLevels(t, r.question_id) = ShownLevels(s, r.question_id)
                              /\ t.hints_used_total = s.hints_used_total
----------------------------------------------------------------------------
\* the request was answered with the first checkpoint of a new episode
Entered(response) == response.op = "enter_learning_mode"

\* C26: a successful enter sets the session and the question to LEARNING_MODE with
\* the question's learning-mode flag set, allocates exactly one CheckpointProgress
\* per supplied checkpoint, in the supplied order and with its id, sets
\* current_checkpoint_index to 0, and marks the first CheckpointProgress
\* in_progress and every other one not_started.
C26_EnterAllocatesCheckpoints ==
    \A r \in EnterLearningModeRequests, g \in GeneratedCheckpoints :
        LET res == enter_learning_mode_endpoint(quiz_sessions, r, g)
        IN  Entered(res.response) =>
                LET t == res.quiz_sessions[r.quiz_session_id]
                    qp == t.question_progress[ProgressIndex(t, r.question_id)]
                    cps == qp.learning_mode_checkpoints
                IN  /\ t.status = QS_LEARNING_MODE
                    /\ qp.status = LEARNING_MODE
                    /\ qp.in_learning_mode
                    /\ Len(cps) = Len(g[1])
                    /\ \A k \in DOMAIN cps :
                           /\ cps[k].checkpoint_id = g[1][k].checkpoint_id
                           /\ cps[k].status = IF k = 1 THEN "in_progress" ELSE "not_started"
                    /\ qp.current_checkpoint_index = 0

\* C26 witness: a question advanced to its second checkpoint, where entering again
\* allocates a new list and starts over at the first checkpoint.
C26_EnteredAgainAfterAdvancing ==
    \E sid \in DOMAIN quiz_sessions :
        /\ quiz_sessions[sid].questions # <<>>
        /\ quiz_sessions[sid].question_progress[1].in_learning_mode
        /\ quiz_sessions[sid].question_progress[1].current_checkpoint_index = 1
        /\ Entered(enter_learning_mode_endpoint(
                       quiz_sessions, [quiz_session_id |-> sid, question_id |-> "q1"],
                       Some(CheckpointDefs(2))).response)
----------------------------------------------------------------------------
\* the questions of the session that are in Learning Mode
InLearningMode(s) ==
    {i \in Questions(s) : \/ s.question_progress[i].status = LEARNING_MODE
                          \/ s.question_progress[i].in_learning_mode}

\* C27: no submitted answer, however many wrong attempts it brings the count to,
\* puts a question or the session in LEARNING_MODE that was not there before, and
\* an explicit enter on a question succeeds only when that question has at least
\* three wrong attempts recorded.
C27_EnteredOnlyExplicitlyAfterTrigger ==
    /\ \A r \in SubmitAnswerRequests, h \in SocraticOutcomes :
           r.quiz_session_id \in DOMAIN quiz_sessions =>
               LET s == quiz_sessions[r.quiz_session_id]
                   t == submit_answer(quiz_sessions, r, h).quiz_sessions[r.quiz_session_id]
               IN  /\ InLearningMode(t) \subseteq InLearningMode(s)
                   /\ t.status = QS_LEARNING_MODE => s.status = QS_LEARNING_MODE
    /\ \A r \in EnterLearningModeRequests, g \in GeneratedCheckpoints :
           Entered(enter_learning_mode_endpoint(quiz_sessions, r, g).response) =>
               RecordedWrong(quiz_sessions[r.quiz_session_id], r.question_id) >= 3
----------------------------------------------------------------------------
\* C28: every enter that is rejected, because the question's concept id resolves to
\* no concept of the session, because the checkpoint generator failed, or because
\* it returned an empty list, leaves the session as it was: session status, the
\* question's status, learning-mode flag and checkpoint list, and
\* learning_mode_triggered_count.
C28_FailedEnterChangesNothing ==
    \A r \in EnterLearningModeRequests, g \in GeneratedCheckpoints :
        LET res == enter_learning_mode_endpoint(quiz_sessions, r, g)
        IN  /\ (g # None /\ Len(g[1]) = 0) => ~Entered(res.response)
            /\ ~Entered(res.response) => res.quiz_sessions = quiz_sessions
----------------------------------------------------------------------------
NotInLearningMode(response) ==
    /\ response.op = "HTTPException"
    /\ response.status_code = 400
    /\ response.detail = "Not in learning mode for this question"

AllCheckpointsCompleted(response) ==
    /\ response.op = "HTTPException"
    /\ response.status_code = 400
    /\ response.detail = "All checkpoints completed"

\* the progress record of the request's question, or none when the session has no
\* such question
Target(r) ==
    LET s == quiz_sessions[r.quiz_session_id]
        i == ProgressIndex(s, r.question_id)
    IN  IF i = 0 THEN None ELSE Some(s.question_progress[i])

\* the question has no active episode: it was never entered, or it was exited
NoActiveEpisode(r) == Target(r) = None \/ ~Target(r)[1].in_learning_mode

\* the last checkpoint allocated to the question has advanced
LastCheckpointAdvanced(r) ==
    /\ Target(r) # None
    /\ Len(Target(r)[1].learning_mode_checkpoints) > 0
    /\ Target(r)[1].current_checkpoint_index
           >= Len(Target(r)[1].learning_mode_checkpoints)
    /\ \A k \in DOMAIN Target(r)[1].learning_mode_checkpoints :
           Target(r)[1].learning_mode_checkpoints[k].status = "completed"

----------------------------------------------------------------------------
\* C30: in every reachable state, for every question that is not CORRECT, whatever
\* wrong attempts and Learning Mode episodes it has been through, an answer with the
\* correct option is accepted and leaves that question CORRECT.
C30_CorrectAnswerAlwaysResolves ==
    \A sid \in DOMAIN quiz_sessions :
        LET s == quiz_sessions[sid]
        IN  \A i \in Questions(s) :
                s.question_progress[i].status # CORRECT =>
                    LET res == submit_answer(
                                   quiz_sessions,
                                   [quiz_session_id |-> sid,
                                    question_id |-> s.questions[i].question_id,
                                    selected_option |-> s.questions[i].correct_answer,
                                    time_spent_seconds |-> Some(25)],
                                   None)
                    IN  /\ CorrectAttemptResponse(res.response)
                        /\ res.quiz_sessions[sid].question_progress[i].status = CORRECT
----------------------------------------------------------------------------
(* Checkpoint responses *)

\* the response was accepted: the turn was recorded and the analyzer answered
Responded(response) == response.op = "checkpoint_response"

\* C31: when a checkpoint response is accepted with should_advance true, the current
\* checkpoint becomes completed and current_checkpoint_index increases by exactly
\* 1; if the new index is below the number of allocated checkpoints the checkpoint
\* at the new index becomes in_progress and the question stays in Learning Mode,
\* otherwise the question leaves Learning Mode and the session returns to
\* IN_PROGRESS.
C31_AdvanceOnShouldAdvance ==
    \A r \in CheckpointResponseRequests, g \in GeneratedCheckpoints, a \in Analyses :
        LET res == checkpoint_response_endpoint(quiz_sessions, r, g, a)
        IN  (Responded(res.response) /\ res.response.should_advance) =>
                LET s == quiz_sessions[r.quiz_session_id]
                    t == res.quiz_sessions[r.quiz_session_id]
                    i == ProgressIndex(s, r.question_id)
                    old == s.question_progress[i]
                    new == t.question_progress[i]
                    k == old.current_checkpoint_index
                IN  /\ new.learning_mode_checkpoints[k + 1].status = "completed"
                    /\ new.current_checkpoint_index = k + 1
                    /\ IF k + 1 < Len(old.learning_mode_checkpoints)
                       THEN /\ new.learning_mode_checkpoints[k + 2].status = "in_progress"
                            /\ new.in_learning_mode
                            /\ new.status = old.status
                       ELSE /\ ~new.in_learning_mode
                            /\ t.status = QS_IN_PROGRESS
----------------------------------------------------------------------------
\* the analyzer answered that the learner should not advance
NotAdvancing(a) == a # None /\ ~a[1].should_advance

\* C32: when a checkpoint response is accepted and the analyzer answers
\* should_advance false, the current checkpoint stays in_progress and
\* current_checkpoint_index, the learning-mode flag, the question status and the
\* session status are unchanged, however many responses the checkpoint has
\* received before.
C32_NotAdvancingKeepsCheckpoint ==
    \A r \in CheckpointResponseRequests, g \in GeneratedCheckpoints, a \in Analyses :
        LET res == checkpoint_response_endpoint(quiz_sessions, r, g, a)
        IN  (Responded(res.response) /\ NotAdvancing(a)) =>
                LET s == quiz_sessions[r.quiz_session_id]
                    t == res.quiz_sessions[r.quiz_session_id]
                    i == ProgressIndex(s, r.question_id)
                    old == s.question_progress[i]
                    new == t.question_progress[i]
                    k == old.current_checkpoint_index
                IN  /\ ~res.response.should_advance
                    /\ old.learning_mode_checkpoints[k + 1].status = "in_progress"
                    /\ new.learning_mode_checkpoints[k + 1].status = "in_progress"
                    /\ new.current_checkpoint_index = k
                    /\ new.in_learning_mode
                    /\ new.status = old.status
                    /\ t.status = s.status

\* C32 witness: a checkpoint that has received two responses is still in progress,
\* and a third response that does not advance is accepted.
C32_ThirdResponseNotAdvancing ==
    \E sid \in DOMAIN quiz_sessions :
        /\ quiz_sessions[sid].questions # <<>>
        /\ quiz_sessions[sid].question_progress[1].in_learning_mode
        /\ Len(quiz_sessions[sid].question_progress[1].learning_mode_checkpoints) > 0
        /\ quiz_sessions[sid].question_progress[1].current_checkpoint_index = 0
        /\ quiz_sessions[sid].question_progress[1].learning_mode_checkpoints[1].attempts = 2
        /\ Responded(checkpoint_response_endpoint(
                         quiz_sessions,
                         [quiz_session_id |-> sid, question_id |-> "q1",
                          checkpoint_id |-> "cp1", user_response |-> "answer"],
                         Some(CheckpointDefs(1)),
                         Some([understanding_level |-> "partial",
                               should_advance |-> FALSE])).response)
----------------------------------------------------------------------------
\* the turns and the attempt counter of a checkpoint
Turns(cp) == [conversation_history |-> cp.conversation_history, attempts |-> cp.attempts]

\* C33: each accepted checkpoint response appends exactly one conversation turn,
\* holding the learner's answer, to the checkpoint at current_checkpoint_index and
\* adds exactly 1 to that checkpoint's attempts, and leaves the turns and attempts
\* of every other checkpoint as they were; in every reachable state the attempts of
\* every checkpoint equal the number of its conversation turns.
C33_OneTurnPerResponse ==
    /\ \A sid \in DOMAIN quiz_sessions :
           \A i \in Questions(quiz_sessions[sid]) :
               LET cps == quiz_sessions[sid].question_progress[i].learning_mode_checkpoints
               IN  \A k \in DOMAIN cps : cps[k].attempts = Len(cps[k].conversation_history)
    /\ \A r \in CheckpointResponseRequests, g \in GeneratedCheckpoints, a \in Analyses :
           LET res == checkpoint_response_endpoint(quiz_sessions, r, g, a)
           IN  Responded(res.response) =>
                   LET s == quiz_sessions[r.quiz_session_id]
                       t == res.quiz_sessions[r.quiz_session_id]
                       i == ProgressIndex(s, r.question_id)
                       old == s.question_progress[i].learning_mode_checkpoints
                       new == t.question_progress[i].learning_mode_checkpoints
                       k == s.question_progress[i].current_checkpoint_index + 1
                   IN  /\ Len(new) = Len(old)
                       /\ Len(new[k].conversation_history)
                              = Len(old[k].conversation_history) + 1
                       /\ SubSeq(new[k].conversation_history, 1,
                                 Len(old[k].conversation_history))
                              = old[k].conversation_history
                       /\ new[k].conversation_history[
                              Len(new[k].conversation_history)].answer = r.user_response
                       /\ new[k].attempts = old[k].attempts + 1
                       /\ \A j \in DOMAIN old \ {k} : Turns(new[j]) = Turns(old[j])
                       /\ \A q \in Questions(s) \ {i} :
                              t.question_progress[q].learning_mode_checkpoints
                                  = s.question_progress[q].learning_mode_checkpoints

\* C33 witness: the first checkpoint of q1 was completed by one response and the
\* second has received one response.
C33_TurnsOnTwoCheckpoints ==
    \E sid \in DOMAIN quiz_sessions :
        /\ quiz_sessions[sid].questions # <<>>
        /\ LET cps == quiz_sessions[sid].question_progress[1].learning_mode_checkpoints
           IN  /\ Len(cps) = 2
               /\ cps[1].status = "completed" /\ cps[1].attempts = 1
               /\ cps[2].status = "in_progress" /\ cps[2].attempts = 1
----------------------------------------------------------------------------
(* Time assessment *)

\* the assessment of an elapsed time spread over a number of attempts: the average
\* elapsed / attempts compared with 10 and 30
AssessmentOf(elapsed, attempts) ==
    IF elapsed < 10 * attempts THEN "rushed"
    ELSE IF elapsed < 30 * attempts THEN "normal"
    ELSE "deliberate"

\* C34: when an elapsed time is supplied, 0 included, a time assessment is produced,
\* and it is rushed if the elapsed time divided by the number of attempts on the
\* question is below 10 seconds, normal if it is at least 10 and below 30, and
\* deliberate otherwise.
C34_TimeAssessmentPerAttempt ==
    (/\ analysis_report # None
     /\ analysis_input.time_spent_seconds # None
     /\ Len(analysis_input.attempts) >= 1) =>
        /\ analysis_report[1].time_analysis # None
        /\ analysis_report[1].time_analysis[1].assessment
               = AssessmentOf(analysis_input.time_spent_seconds[1],
                              Len(analysis_input.attempts))
----------------------------------------------------------------------------
(* Checkpoint list of a question in Learning Mode *)

\* the status the checkpoint at position k (from 1) has when the 0-based index of
\* the current checkpoint is idx
StatusAround(idx, k) ==
    IF k - 1 < idx THEN "completed"
    ELSE IF k - 1 = idx THEN "in_progress"
    ELSE "not_started"

WellFormed(q) ==
    /\ 0 <= q.current_checkpoint_index
    /\ q.current_checkpoint_index < Len(q.learning_mode_checkpoints)
    /\ \A k \in 1..Len(q.learning_mode_checkpoints) :
           q.learning_mode_checkpoints[k].status
               = StatusAround(q.current_checkpoint_index, k)

\* C35: while a question's learning-mode flag is set, its current checkpoint index
\* is within its checkpoint list, every checkpoint before the index is completed,
\* the one at the index is in_progress and every later one is not_started.
C35_CheckpointListWellFormed ==
    \A sid \in DOMAIN quiz_sessions :
        \A i \in Questions(quiz_sessions[sid]) :
            quiz_sessions[sid].question_progress[i].in_learning_mode =>
                WellFormed(quiz_sessions[sid].question_progress[i])
----------------------------------------------------------------------------
(* Learning-mode bookkeeping *)

Flagged(s) == {i \in Questions(s) : s.question_progress[i].in_learning_mode}

\* C36: in every state a question's learning-mode flag is set exactly when its
\* status is LEARNING_MODE, and the session's status is LEARNING_MODE exactly when
\* some question of the session has its learning-mode flag set.
C36_LearningModeBookkeeping ==
    \A sid \in DOMAIN quiz_sessions :
        LET s == quiz_sessions[sid]
        IN  /\ \A i \in Questions(s) :
                   s.question_progress[i].in_learning_mode
                       <=> s.question_progress[i].status = LEARNING_MODE
            /\ s.status = QS_LEARNING_MODE <=> Flagged(s) # {}
----------------------------------------------------------------------------
(* Completion *)

\* C37: whenever a session is COMPLETED, every one of its questions is CORRECT and
\* its score equals the number of its questions.
C37_CompletedMeansAllCorrect ==
    \A sid \in DOMAIN quiz_sessions :
        LET s == quiz_sessions[sid]
        IN  s.status = QS_COMPLETED =>
                /\ \A i \in Questions(s) : s.question_progress[i].status = CORRECT
                /\ s.score = Len(s.questions)
----------------------------------------------------------------------------
(* Analyzer failure during respond *)

\* C38: a respond whose adaptive-hint analyzer fails is rejected and leaves the
\* checkpoint progress of the session as it was before the call: no conversation
\* turn added, no attempt counted, no checkpoint status or index changed.
C38_AnalyzerFailureChangesNothing ==
    \A r \in CheckpointResponseRequests, g \in GeneratedCheckpoints :
        LET res == checkpoint_response_endpoint(quiz_sessions, r, g, None)
        IN  (/\ r.quiz_session_id \in DOMAIN quiz_sessions
             /\ g # None
             /\ Target(r) # None
             /\ Target(r)[1].in_learning_mode
             /\ Target(r)[1].current_checkpoint_index
                    < Len(Target(r)[1].learning_mode_checkpoints)
             /\ Target(r)[1].current_checkpoint_index < Len(g[1])) =>
                /\ res.response.status_code >= 400
                /\ res.quiz_sessions[r.quiz_session_id].question_progress
                       = quiz_sessions[r.quiz_session_id].question_progress
----------------------------------------------------------------------------
(* Exit against the allocated checkpoint records *)

\* C39: after a respond on a question in Learning Mode, whatever list of checkpoint
\* definitions was fetched again for it, the question has left Learning Mode exactly
\* when its current checkpoint index has reached the number of checkpoint records
\* allocated at enter: a shorter list causes no exit before that, and no list leaves
\* the flag set with the index outside the allocated records.
C39_ExitAtAllocatedCount ==
    \A r \in CheckpointResponseRequests, g \in GeneratedCheckpoints, a \in Analyses :
        (/\ r.quiz_session_id \in DOMAIN quiz_sessions
         /\ Target(r) # None
         /\ Target(r)[1].in_learning_mode
         /\ Target(r)[1].current_checkpoint_index
                < Len(Target(r)[1].learning_mode_checkpoints)) =>
            LET res == checkpoint_response_endpoint(quiz_sessions, r, g, a)
                i == ProgressIndex(quiz_sessions[r.quiz_session_id], r.question_id)
                q == res.quiz_sessions[r.quiz_session_id].question_progress[i]
            IN  /\ Len(q.learning_mode_checkpoints)
                       = Len(Target(r)[1].learning_mode_checkpoints)
                /\ ~q.in_learning_mode
                       <=> q.current_checkpoint_index = Len(q.learning_mode_checkpoints)

====
